---- MODULE Spec2Model ----
(***************************************************************************)
(* PRS / MDMS reconciliation (prsMdms/backend/services/prsMdms.js).        *)
(*                                                                         *)
(* The two relations prs and mdms live in PostgreSQL; the services issue   *)
(* SQL against them and shape the rows in JavaScript.  The model keeps the *)
(* two relations as sequences of rows (heap order) and gives each query    *)
(* as an operator that follows SQL's three-valued logic, and each service  *)
(* method as an action that leaves its return value in `response`.         *)
(*                                                                         *)
(* Encoding of values                                                      *)
(*   a text is a sequence of one-character strings, <<"B","1">>;           *)
(*   a nullable column value is NULL (= <<>>) or Some(x) (= <<x>>);        *)
(*   an SQL truth value is "T", "F" or "U" (unknown);                      *)
(*   a JavaScript number that is the result of a division is a record      *)
(*   [kind |-> "num", v |-> hundredths] or [kind |-> "NaN"], ...           *)
(***************************************************************************)
EXTENDS Integers, Sequences, FiniteSets, TLC

VARIABLES prs, mdms, response, previous, ingestion, reader, seeder, simulation

vars == <<prs, mdms, response, previous, ingestion, reader, seeder, simulation>>

\* Largest number of rows held by each relation in the explored databases.
MaxRows == 2

(***************************************************************************)
(* SQL values                                                              *)
(***************************************************************************)
NULL == <<>>

Some(x) == <<x>>

IsNull(v) == v = NULL

Val(v) == v[1]

\* The JavaScript value of an object property that was never assigned.
UNDEFINED == <<"undefined", "undefined">>

UpperCase == <<"A","B","C","D","E","F","G","H","I","J","K","L","M",
               "N","O","P","Q","R","S","T","U","V","W","X","Y","Z">>

LowerCase == <<"a","b","c","d","e","f","g","h","i","j","k","l","m",
               "n","o","p","q","r","s","t","u","v","w","x","y","z">>

\* The characters texts are made of.
Chars ==
  {" ", "-", "/", "_", "0", "1", "2", "3", "4", "5", "6", "7", "8", "9"}
  \cup {UpperCase[i] : i \in 1..Len(UpperCase)}
  \cup {LowerCase[i] : i \in 1..Len(LowerCase)}

LowerMap ==
  [c \in Chars |->
     IF \E i \in 1..Len(UpperCase) : UpperCase[i] = c
     THEN LowerCase[CHOOSE i \in 1..Len(UpperCase) : UpperCase[i] = c]
     ELSE c]

LowerChar(c) == LowerMap[c]

\* LOWER(text): NULL stays NULL, every upper-case letter is folded.
LOWER(v) ==
  IF IsNull(v) THEN NULL
  ELSE Some([i \in 1..Len(Val(v)) |-> LowerChar(Val(v)[i])])

RECURSIVE LTrimStr(_)
LTrimStr(s) ==
  IF Len(s) > 0 /\ s[1] = " " THEN LTrimStr(SubSeq(s, 2, Len(s))) ELSE s

RECURSIVE RTrimStr(_)
RTrimStr(s) ==
  IF Len(s) > 0 /\ s[Len(s)] = " " THEN RTrimStr(SubSeq(s, 1, Len(s) - 1)) ELSE s

\* TRIM(text): strips the space character from both ends; NULL stays NULL.
TRIM(v) ==
  IF IsNull(v) THEN NULL ELSE Some(LTrimStr(RTrimStr(Val(v))))

\* A comparison under which two NULLs are equal (IS NOT DISTINCT FROM).
SqlEqNullsEqual(a, b) == IF a = b THEN "T" ELSE "F"

\* a = b in SQL: unknown as soon as one side is NULL.
SqlEq(a, b) ==
  IF IsNull(a) \/ IsNull(b) THEN "U" ELSE IF a = b THEN "T" ELSE "F"

\* a != b in SQL.
SqlNe(a, b) ==
  IF IsNull(a) \/ IsNull(b) THEN "U" ELSE IF a = b THEN "F" ELSE "T"

SqlAnd(x, y) ==
  IF x = "F" \/ y = "F" THEN "F"
  ELSE IF x = "U" \/ y = "U" THEN "U"
  ELSE "T"

(***************************************************************************)
(* Sequence helpers                                                        *)
(***************************************************************************)
\* F(v) with v computed once and then bound to the parameter of F: a
\* JavaScript `const`, or the materialised result of a subquery.
Const(v, F(_)) == CHOOSE y \in {F(x) : x \in {v}} : TRUE

\* s.map(F)
MapSeq(s, F(_)) == Const(s, LAMBDA t : [k \in 1..Len(t) |-> F(t[k])])

RECURSIVE Flatten(_)
Flatten(ss) ==
  IF ss = <<>> THEN <<>> ELSE Head(ss) \o Flatten(Tail(ss))

RECURSIVE SumSeq(_)
SumSeq(s) == IF s = <<>> THEN 0 ELSE Head(s) + SumSeq(Tail(s))

Max(a, b) == IF a >= b THEN a ELSE b

(***************************************************************************)
(* The join of the Matcher                                                 *)
(***************************************************************************)
\* The join of the first revision of the service: columns compared as stored.
JoinOnRaw(p, m) ==
  SqlAnd(SqlAnd(SqlEq(p.coach_code, m.prs_coach_code),
                SqlEq(p.class, m.coach_class)),
         SqlEq(p.berth_number, m.berth_no))

\* ON TRIM(LOWER(p.coach_code)) = TRIM(LOWER(m.prs_coach_code))
\*    AND TRIM(LOWER(p.class)) = TRIM(LOWER(m.coach_class))
\*    AND p.berth_number::INT = m.berth_no
JoinOn(p, m) ==
  SqlAnd(SqlAnd(SqlEq(TRIM(LOWER(p.coach_code)), TRIM(LOWER(m.prs_coach_code))),
                SqlEq(TRIM(LOWER(p.class)), TRIM(LOWER(m.coach_class)))),
         SqlEq(p.berth_number, m.berth_no))

\* The row of NULLs a LEFT JOIN supplies for the right side when nothing matches.
NullPrsRow ==
  [serial_no |-> NULL, coach_code |-> NULL, class |-> NULL,
   berth_number |-> NULL, berth_type |-> NULL]

NullMdmsRow ==
  [serial_no |-> NULL, layout_variant_no |-> NULL, prs_coach_code |-> NULL,
   coach_class |-> NULL, berth_no |-> NULL, berth_qualifier |-> NULL]

\* prs p INNER JOIN mdms m ON ...: the pairs [p, m], p in the outer loop.
InnerJoin(P, M) ==
  LET Matches(p) ==
        LET On(m) == JoinOn(p, m) = "T"
            Pair(m) == [p |-> p, m |-> m]
        IN  MapSeq(SelectSeq(M, On), Pair)
  IN  Flatten(MapSeq(P, Matches))

\* prs p LEFT JOIN mdms m ON ...: a prs row without a match is kept once,
\* joined to the NULL row.
PrsLeftJoinMdms(P, M) ==
  LET Matches(p) ==
        LET On(m) == JoinOn(p, m) = "T"
            Pair(m) == [p |-> p, m |-> m]
            Rows(ms) == IF ms = <<>> THEN << Pair(NullMdmsRow) >> ELSE MapSeq(ms, Pair)
        IN  Const(SelectSeq(M, On), Rows)
  IN  Flatten(MapSeq(P, Matches))

\* mdms m LEFT JOIN prs p ON ...
MdmsLeftJoinPrs(P, M) ==
  LET Matches(m) ==
        LET On(p) == JoinOn(p, m) = "T"
            Pair(p) == [p |-> p, m |-> m]
            Rows(ps) == IF ps = <<>> THEN << Pair(NullPrsRow) >> ELSE MapSeq(ps, Pair)
        IN  Const(SelectSeq(P, On), Rows)
  IN  Flatten(MapSeq(M, Matches))

\* Query 1: ... FROM prs p INNER JOIN mdms m ON ... WHERE p.berth_type != m.berth_qualifier
typeMismatchQuery(P, M) ==
  LET Where(r) == SqlNe(r.p.berth_type, r.m.berth_qualifier) = "T"
      Select(r) ==
        [serial_no |-> r.p.serial_no,
         coach_code |-> r.p.coach_code,
         class |-> r.p.class,
         berth_number |-> r.p.berth_number,
         berth_type |-> r.p.berth_type,
         berth_qualifier |-> r.m.berth_qualifier,
         coach_class |-> r.m.coach_class]
  IN  MapSeq(SelectSeq(InnerJoin(P, M), Where), Select)

\* Query 2 with the anti-join test put on a column that may be NULL in a
\* joined row: WHERE m.berth_qualifier IS NULL.
missingInMdmsQueryOnQualifier(P, M) ==
  LET Where(r) == IsNull(r.m.berth_qualifier)
      Select(r) ==
        [serial_no |-> r.p.serial_no,
         coach_code |-> r.p.coach_code,
         class |-> r.p.class,
         berth_number |-> r.p.berth_number,
         berth_type |-> r.p.berth_type]
  IN  MapSeq(SelectSeq(PrsLeftJoinMdms(P, M), Where), Select)

\* Query 2: ... FROM prs p LEFT JOIN mdms m ON ... WHERE m.serial_no IS NULL
missingInMdmsQuery(P, M) ==
  LET Where(r) == IsNull(r.m.serial_no)
      Select(r) ==
        [serial_no |-> r.p.serial_no,
         coach_code |-> r.p.coach_code,
         class |-> r.p.class,
         berth_number |-> r.p.berth_number,
         berth_type |-> r.p.berth_type]
  IN  MapSeq(SelectSeq(PrsLeftJoinMdms(P, M), Where), Select)

\* Query 3 joined on the columns as stored, while queries 1 and 2 normalize.
missingInPrsQueryRawJoin(P, M) ==
  LET Unmatched(m) == \A i \in 1..Len(P) : JoinOnRaw(P[i], m) # "T"
      Select(m) ==
        [serial_no |-> m.serial_no,
         coach_code |-> m.prs_coach_code,
         coach_class |-> m.coach_class,
         berth_number |-> m.berth_no,
         berth_qualifier |-> m.berth_qualifier]
  IN  MapSeq(SelectSeq(M, Unmatched), Select)

\* Query 3: ... FROM mdms m LEFT JOIN prs p ON ... WHERE p.serial_no IS NULL
missingInPrsQuery(P, M) ==
  LET Where(r) == IsNull(r.p.serial_no)
      Select(r) ==
        [serial_no |-> r.m.serial_no,
         coach_code |-> r.m.prs_coach_code,
         coach_class |-> r.m.coach_class,
         berth_number |-> r.m.berth_no,
         berth_qualifier |-> r.m.berth_qualifier]
  IN  MapSeq(SelectSeq(MdmsLeftJoinPrs(P, M), Where), Select)

\* The missing side left absent instead of marked.
NAAbsent == NULL

\* The sentinel of the missing side: the string 'N/A'.
NA == Some(<<"N", "/", "A">>)

\* findDiscrepancies with a total that leaves out the rows missing in PRS.
findDiscrepanciesMissingUncounted(P, M) ==
  LET TypeMismatch(row) ==
        [serialNo |-> row.serial_no,
         coachCode |-> row.coach_code,
         prsClass |-> row.class,
         mdmsClass |-> row.coach_class,
         berthNumber |-> row.berth_number,
         berthType |-> row.berth_type,
         berthQualifier |-> row.berth_qualifier,
         discrepancyType |-> "TYPE_MISMATCH"]
      MissingInMdms(row) ==
        [serialNo |-> row.serial_no,
         coachCode |-> row.coach_code,
         prsClass |-> row.class,
         mdmsClass |-> UNDEFINED,
         berthNumber |-> row.berth_number,
         berthType |-> row.berth_type,
         berthQualifier |-> NA,
         discrepancyType |-> "MISSING_IN_MDMS"]
      MissingInPrs(row) ==
        [serialNo |-> row.serial_no,
         coachCode |-> row.coach_code,
         prsClass |-> UNDEFINED,
         mdmsClass |-> row.coach_class,
         berthNumber |-> row.berth_number,
         berthType |-> NA,
         berthQualifier |-> row.berth_qualifier,
         discrepancyType |-> "MISSING_IN_PRS"]
      Result(typeMismatchResult, missingInMdmsResult, missingInPrsResult) ==
        LET Counts(discrepancies) ==
              [totalDiscrepancies |-> Len(typeMismatchResult) + Len(missingInMdmsResult),
               typeMismatchCount |-> Len(typeMismatchResult),
               missingInMdmsCount |-> Len(missingInMdmsResult),
               missingInPrsCount |-> Len(missingInPrsResult),
               discrepancies |-> discrepancies]
        IN  Const(MapSeq(typeMismatchResult, TypeMismatch)
                    \o MapSeq(missingInMdmsResult, MissingInMdms)
                    \o MapSeq(missingInPrsResult, MissingInPrs),
                  Counts)
  IN  CHOOSE result \in {Result(a, b, c) : a \in {typeMismatchQuery(P, M)},
                                            b \in {missingInMdmsQuery(P, M)},
                                            c \in {missingInPrsQuery(P, M)}} : TRUE

\* DiscrepancyService.findDiscrepancies: the three queries, each result row
\* pushed onto `discrepancies` in turn, and the counts of the returned object.
findDiscrepancies(P, M) ==
  LET TypeMismatch(row) ==
        [serialNo |-> row.serial_no,
         coachCode |-> row.coach_code,
         prsClass |-> row.class,
         mdmsClass |-> row.coach_class,
         berthNumber |-> row.berth_number,
         berthType |-> row.berth_type,
         berthQualifier |-> row.berth_qualifier,
         discrepancyType |-> "TYPE_MISMATCH"]
      MissingInMdms(row) ==
        [serialNo |-> row.serial_no,
         coachCode |-> row.coach_code,
         prsClass |-> row.class,
         mdmsClass |-> UNDEFINED,
         berthNumber |-> row.berth_number,
         berthType |-> row.berth_type,
         berthQualifier |-> NA,
         discrepancyType |-> "MISSING_IN_MDMS"]
      MissingInPrs(row) ==
        [serialNo |-> row.serial_no,
         coachCode |-> row.coach_code,
         prsClass |-> UNDEFINED,
         mdmsClass |-> row.coach_class,
         berthNumber |-> row.berth_number,
         berthType |-> NA,
         berthQualifier |-> row.berth_qualifier,
         discrepancyType |-> "MISSING_IN_PRS"]
      Result(typeMismatchResult, missingInMdmsResult, missingInPrsResult) ==
        LET Counts(discrepancies) ==
              [totalDiscrepancies |-> Len(discrepancies),
               typeMismatchCount |-> Len(typeMismatchResult),
               missingInMdmsCount |-> Len(missingInMdmsResult),
               missingInPrsCount |-> Len(missingInPrsResult),
               discrepancies |-> discrepancies]
        IN  Const(MapSeq(typeMismatchResult, TypeMismatch)
                    \o MapSeq(missingInMdmsResult, MissingInMdms)
                    \o MapSeq(missingInPrsResult, MissingInPrs),
                  Counts)
  IN  CHOOSE result \in {Result(a, b, c) : a \in {typeMismatchQuery(P, M)},
                                            b \in {missingInMdmsQuery(P, M)},
                                            c \in {missingInPrsQuery(P, M)}} : TRUE

(***************************************************************************)
(* JavaScript arithmetic of the summaries                                  *)
(***************************************************************************)
NaN == [kind |-> "NaN", v |-> 0]

Num(h) == [kind |-> "num", v |-> h]

\* The ratio truncated to two decimals instead of rounded half up.
RoundedRatioTruncated(num, den, scale) ==
  IF den = 0
  THEN IF num = 0 THEN NaN
       ELSE IF num > 0 THEN [kind |-> "Infinity", v |-> 0]
       ELSE [kind |-> "-Infinity", v |-> 0]
  ELSE Num((num * scale) \div den)

\* Math.round((num / den) * scale) / 100 for integers num, den >= 0, in
\* hundredths: 0/0 is NaN, x/0 is +-Infinity, Math.round rounds half up.
RoundedRatio(num, den, scale) ==
  IF den = 0
  THEN IF num = 0 THEN NaN
       ELSE IF num > 0 THEN [kind |-> "Infinity", v |-> 0]
       ELSE [kind |-> "-Infinity", v |-> 0]
  ELSE Num((2 * num * scale + den) \div (2 * den))

Scale == 10000

\* DiscrepancyService.getDetailedSummary
getDetailedSummary(P, M) ==
  LET Summary(discrepancyResult) ==
        LET totalPrsRecords == Len(P)
            totalMdmsRecords == Len(M)
            totalPossibleMatches == Max(totalPrsRecords, totalMdmsRecords)
            matchingRecords == totalPossibleMatches - discrepancyResult.totalDiscrepancies
        IN  [overview |->
               [totalPrsRecords |-> totalPrsRecords,
                totalMdmsRecords |-> totalMdmsRecords,
                totalDiscrepancies |-> discrepancyResult.totalDiscrepancies,
                dataQualityScore |->
                  RoundedRatio(matchingRecords, totalPossibleMatches, Scale)],
             discrepancyBreakdown |->
               [typeMismatchCount |-> discrepancyResult.typeMismatchCount,
                missingInPrsCount |-> discrepancyResult.missingInPrsCount,
                missingInMdmsCount |-> discrepancyResult.missingInMdmsCount,
                typeMismatchPercentage |->
                  RoundedRatio(discrepancyResult.typeMismatchCount,
                               discrepancyResult.totalDiscrepancies, Scale),
                missingInPrsPercentage |->
                  RoundedRatio(discrepancyResult.missingInPrsCount,
                               discrepancyResult.totalDiscrepancies, Scale),
                missingInMdmsPercentage |->
                  RoundedRatio(discrepancyResult.missingInMdmsCount,
                               discrepancyResult.totalDiscrepancies, Scale)]]
  IN  Const(findDiscrepancies(P, M), Summary)

(***************************************************************************)
(* GROUP BY, ORDER BY and the aggregates of the duplicate queries          *)
(***************************************************************************)
\* The entries of s without repetitions, each at its first occurrence.
DistinctSeq(s) ==
  LET Distinct(t) ==
        LET First(i) == \A j \in 1..(i - 1) : t[j] # t[i]
            Firsts(I) ==
              [k \in 1..Cardinality(I) |->
                 t[CHOOSE i \in I : Cardinality({j \in I : j < i}) = k - 1]]
        IN  Const({i \in 1..Len(t) : First(i)}, Firsts)
  IN  Const(s, Distinct)

\* ORDER BY: the entries of s sorted by the strict order Before; entries that
\* Before does not separate keep their relative position.
OrderBy(s, Before(_, _)) ==
  LET Sorted(t) ==
        LET Pos(i) ==
              1 + Cardinality({j \in 1..Len(t) :
                                 /\ j # i
                                 /\ \/ Before(t[j], t[i])
                                    \/ ~Before(t[i], t[j]) /\ j < i})
        IN  [k \in 1..Len(t) |-> t[CHOOSE i \in 1..Len(t) : Pos(i) = k]]
  IN  Const(s, Sorted)

\* Code-point order of the characters in use (the "C" collation).
Collation ==
  <<" ", "-", "/", "0", "1", "2", "3", "4", "5", "6", "7", "8", "9">>
  \o UpperCase \o <<"_">> \o LowerCase

CharRank(c) == CHOOSE i \in 1..Len(Collation) : Collation[i] = c

RECURSIVE StrLess(_, _)
StrLess(a, b) ==
  IF b = <<>> THEN FALSE
  ELSE IF a = <<>> THEN TRUE
  ELSE IF Head(a) = Head(b) THEN StrLess(Tail(a), Tail(b))
  ELSE CharRank(Head(a)) < CharRank(Head(b))

\* ORDER BY ... ASC on a text column: NULLs sort last.
TextLess(a, b) ==
  IF IsNull(a) THEN FALSE
  ELSE IF IsNull(b) THEN TRUE
  ELSE StrLess(Val(a), Val(b))

\* ORDER BY ... ASC on an integer column: NULLs sort last.
IntLess(a, b) ==
  IF IsNull(a) THEN FALSE
  ELSE IF IsNull(b) THEN TRUE
  ELSE Val(a) < Val(b)

\* ARRAY_AGG(x ORDER BY x)
ArrayAggOrdered(xs) == OrderBy(xs, IntLess)

\* COUNT(x): the rows where x is not NULL.
CountNotNull(xs) ==
  LET NotNull(t) == Cardinality({i \in 1..Len(t) : ~IsNull(t[i])})
  IN  Const(xs, NotNull)

\* Query 1 grouped by the Matcher's normalized columns instead of the stored
\* ones: GROUP BY TRIM(LOWER(coach_code)), TRIM(LOWER(class)), ...
prsDuplicatesQueryNormalized(P) ==
  LET Key(r) == <<TRIM(LOWER(r.coach_code)), TRIM(LOWER(r.class)),
                  r.berth_number, r.berth_type>>
      SerialNo(r) == r.serial_no
      Group(k) ==
        LET In(r) == Key(r) = k
            Aggregate(members) ==
              [coach_code |-> k[1], class |-> k[2],
               berth_number |-> k[3], berth_type |-> k[4],
               duplicate_count |-> Len(members),
               serial_numbers |-> ArrayAggOrdered(MapSeq(members, SerialNo))]
        IN  Const(SelectSeq(P, In), Aggregate)
      Having(g) == g.duplicate_count > 1
  IN  SelectSeq(MapSeq(DistinctSeq(MapSeq(P, Key)), Group), Having)

\* Query 1 of findDuplicates:
\*   SELECT coach_code, class, berth_number, berth_type, COUNT(all rows),
\*          ARRAY_AGG(serial_no ORDER BY serial_no)
\*   FROM prs GROUP BY coach_code, class, berth_number, berth_type
\*   HAVING COUNT(all rows) > 1 ORDER BY coach_code, berth_number
prsDuplicatesQuery(P) ==
  LET Key(r) == <<r.coach_code, r.class, r.berth_number, r.berth_type>>
      SerialNo(r) == r.serial_no
      Group(k) ==
        LET In(r) == Key(r) = k
            Aggregate(members) ==
              [coach_code |-> k[1], class |-> k[2],
               berth_number |-> k[3], berth_type |-> k[4],
               duplicate_count |-> Len(members),
               serial_numbers |-> ArrayAggOrdered(MapSeq(members, SerialNo))]
        IN  Const(SelectSeq(P, In), Aggregate)
      Having(g) == g.duplicate_count > 1
      Before(a, b) ==
        \/ TextLess(a.coach_code, b.coach_code)
        \/ /\ a.coach_code = b.coach_code
           /\ IntLess(a.berth_number, b.berth_number)
  IN  OrderBy(SelectSeq(MapSeq(DistinctSeq(MapSeq(P, Key)), Group), Having), Before)

\* The MDMS groups keyed with coach_class as a fifth column.
mdmsDuplicatesQueryWithClass(M) ==
  LET Key(r) == <<r.prs_coach_code, r.layout_variant_no, r.berth_no, r.berth_qualifier,
                  r.coach_class>>
      SerialNo(r) == r.serial_no
      Group(k) ==
        LET In(r) == Key(r) = k
            Aggregate(members) ==
              [prs_coach_code |-> k[1], layout_variant_no |-> k[2],
               berth_no |-> k[3], berth_qualifier |-> k[4],
               duplicate_count |-> Len(members),
               serial_numbers |-> ArrayAggOrdered(MapSeq(members, SerialNo))]
        IN  Const(SelectSeq(M, In), Aggregate)
      Having(g) == g.duplicate_count > 1
  IN  SelectSeq(MapSeq(DistinctSeq(MapSeq(M, Key)), Group), Having)

\* Query 2 of findDuplicates:
\*   ... FROM mdms GROUP BY prs_coach_code, layout_variant_no, berth_no, berth_qualifier
\*   HAVING COUNT(all rows) > 1 ORDER BY prs_coach_code, berth_no
mdmsDuplicatesQuery(M) ==
  LET Key(r) == <<r.prs_coach_code, r.layout_variant_no, r.berth_no, r.berth_qualifier>>
      SerialNo(r) == r.serial_no
      Group(k) ==
        LET In(r) == Key(r) = k
            Aggregate(members) ==
              [prs_coach_code |-> k[1], layout_variant_no |-> k[2],
               berth_no |-> k[3], berth_qualifier |-> k[4],
               duplicate_count |-> Len(members),
               serial_numbers |-> ArrayAggOrdered(MapSeq(members, SerialNo))]
        IN  Const(SelectSeq(M, In), Aggregate)
      Having(g) == g.duplicate_count > 1
      Before(a, b) ==
        \/ TextLess(a.prs_coach_code, b.prs_coach_code)
        \/ /\ a.prs_coach_code = b.prs_coach_code
           /\ IntLess(a.berth_no, b.berth_no)
  IN  OrderBy(SelectSeq(MapSeq(DistinctSeq(MapSeq(M, Key)), Group), Having), Before)

\* Query 3 of findDuplicates:
\*   SELECT ..., COUNT(p.serial_no), COUNT(m.serial_no),
\*          ARRAY_AGG(DISTINCT p.serial_no ORDER BY p.serial_no),
\*          ARRAY_AGG(DISTINCT m.serial_no ORDER BY m.serial_no)
\*   FROM prs p INNER JOIN mdms m ON ...
\*   GROUP BY p.coach_code, p.class, p.berth_number, p.berth_type, m.berth_qualifier
\*   HAVING COUNT(p.serial_no) > 1 OR COUNT(m.serial_no) > 1
\*   ORDER BY (COUNT(p.serial_no) + COUNT(m.serial_no)) DESC
crossTableDuplicatesQuery(P, M) ==
  LET Key(r) == <<r.p.coach_code, r.p.class, r.p.berth_number, r.p.berth_type,
                  r.m.berth_qualifier>>
      PSerial(r) == r.p.serial_no
      MSerial(r) == r.m.serial_no
      Having(g) == g.prs_count > 1 \/ g.mdms_count > 1
      Before(a, b) == a.prs_count + a.mdms_count > b.prs_count + b.mdms_count
      Grouped(joined) ==
        LET Group(k) ==
              LET In(r) == Key(r) = k
                  Aggregate(members) ==
                    [coach_code |-> k[1], class |-> k[2], berth_number |-> k[3],
                     berth_type |-> k[4], berth_qualifier |-> k[5],
                     prs_count |-> CountNotNull(MapSeq(members, PSerial)),
                     mdms_count |-> CountNotNull(MapSeq(members, MSerial)),
                     prs_serial_numbers |->
                       ArrayAggOrdered(DistinctSeq(MapSeq(members, PSerial))),
                     mdms_serial_numbers |->
                       ArrayAggOrdered(DistinctSeq(MapSeq(members, MSerial)))]
              IN  Const(SelectSeq(joined, In), Aggregate)
        IN  OrderBy(SelectSeq(MapSeq(DistinctSeq(MapSeq(joined, Key)), Group), Having),
                    Before)
  IN  Const(InnerJoin(P, M), Grouped)

\* DuplicateService.findDuplicates
findDuplicates(P, M) ==
  LET WithinPrs(row) ==
        [coachCode |-> row.coach_code,
         class |-> row.class,
         berthNumber |-> row.berth_number,
         berthType |-> row.berth_type,
         duplicateCount |-> row.duplicate_count,
         serialNumbers |-> row.serial_numbers,
         duplicateType |-> "WITHIN_PRS"]
      WithinMdms(row) ==
        [coachCode |-> row.prs_coach_code,
         layoutVariantNo |-> row.layout_variant_no,
         berthNumber |-> row.berth_no,
         berthQualifier |-> row.berth_qualifier,
         duplicateCount |-> row.duplicate_count,
         serialNumbers |-> row.serial_numbers,
         duplicateType |-> "WITHIN_MDMS"]
      CrossTable(row) ==
        [coachCode |-> row.coach_code,
         class |-> row.class,
         berthNumber |-> row.berth_number,
         berthType |-> row.berth_type,
         berthQualifier |-> row.berth_qualifier,
         prsCount |-> row.prs_count,
         mdmsCount |-> row.mdms_count,
         prsSerialNumbers |-> row.prs_serial_numbers,
         mdmsSerialNumbers |-> row.mdms_serial_numbers,
         duplicateType |-> "CROSS_TABLE"]
      DuplicateCount(dup) == dup.duplicateCount
      JoinCount(dup) == dup.prsCount + dup.mdmsCount
      Result(dprs, dmdms, dcross) ==
        [summary |->
           [totalDuplicateGroups |-> Len(dprs) + Len(dmdms) + Len(dcross),
            totalDuplicateRecords |->
              SumSeq(MapSeq(dprs, DuplicateCount))
              + SumSeq(MapSeq(dmdms, DuplicateCount))
              + SumSeq(MapSeq(dcross, JoinCount)),
            prsInternalDuplicates |-> Len(dprs),
            mdmsInternalDuplicates |-> Len(dmdms),
            crossTableDuplicates |-> Len(dcross)],
         duplicates |-> [prs |-> dprs, mdms |-> dmdms, crossTable |-> dcross]]
  IN  CHOOSE result \in
        {Result(a, b, c) : a \in {MapSeq(prsDuplicatesQuery(P), WithinPrs)},
                           b \in {MapSeq(mdmsDuplicatesQuery(M), WithinMdms)},
                           c \in {MapSeq(crossTableDuplicatesQuery(P, M), CrossTable)}} : TRUE

\* DuplicateService.getDetailedDuplicateSummary
getDetailedDuplicateSummary(P, M) ==
  LET DuplicateCount(dup) == dup.duplicateCount
      Summary(duplicateResult) ==
        LET totalPrsRecords == Len(P)
            totalMdmsRecords == Len(M)
            Breakdown(prsDuplicateImpact, mdmsDuplicateImpact) ==
              [prsInternalDuplicates |-> duplicateResult.summary.prsInternalDuplicates,
               mdmsInternalDuplicates |-> duplicateResult.summary.mdmsInternalDuplicates,
               crossTableDuplicates |-> duplicateResult.summary.crossTableDuplicates,
               prsDuplicateImpact |-> prsDuplicateImpact,
               mdmsDuplicateImpact |-> mdmsDuplicateImpact,
               prsImpactPercentage |->
                 RoundedRatio(prsDuplicateImpact, totalPrsRecords, Scale),
               mdmsImpactPercentage |->
                 RoundedRatio(mdmsDuplicateImpact, totalMdmsRecords, Scale)]
        IN  [overview |->
               [totalPrsRecords |-> totalPrsRecords,
                totalMdmsRecords |-> totalMdmsRecords,
                totalDuplicateGroups |-> duplicateResult.summary.totalDuplicateGroups,
                totalDuplicateRecords |-> duplicateResult.summary.totalDuplicateRecords,
                dataIntegrityScore |->
                  RoundedRatio(totalPrsRecords + totalMdmsRecords
                                 - duplicateResult.summary.totalDuplicateRecords,
                               totalPrsRecords + totalMdmsRecords, Scale)],
             duplicateBreakdown |->
               CHOOSE breakdown \in
                 {Breakdown(x, y) :
                    x \in {SumSeq(MapSeq(duplicateResult.duplicates.prs, DuplicateCount))},
                    y \in {SumSeq(MapSeq(duplicateResult.duplicates.mdms, DuplicateCount))}} :
                 TRUE]
  IN  Const(findDuplicates(P, M), Summary)

(***************************************************************************)
(* The rows the relations are filled from                                  *)
(***************************************************************************)
B1 == <<"B", "1">>

B1Padded == <<" ", "b", "1", " ">>

SL == <<"S", "L">>

SLLower == <<"s", "l">>

LB == <<"L", "B">>

UB == <<"U", "B">>

V1 == <<"V", "1">>

\* parseAndInsertExcel:
\*   berthNumber && !isNaN(Number(berthNumber)) ? Number(berthNumber) : null
\* for a spreadsheet cell holding a number, a text or nothing (a text that is
\* not numeric and a number cell of 0 both give null).
validBerthNumber(cell) ==
  IF cell.type = "number" /\ cell.n # 0 THEN Some(cell.n) ELSE NULL

PrsRow(serial, coach, cls, berth, type) ==
  [serial_no |-> Some(serial), coach_code |-> coach, class |-> cls,
   berth_number |-> berth, berth_type |-> type]

MdmsRow(serial, layout, coach, cls, berth, qualifier) ==
  [serial_no |-> Some(serial), layout_variant_no |-> layout, prs_coach_code |-> coach,
   coach_class |-> cls, berth_no |-> berth, berth_qualifier |-> qualifier]

BerthOne == validBerthNumber([type |-> "number", n |-> 1])

BerthAbsent == validBerthNumber([type |-> "string", n |-> 0])

\* Column values of the rows of prs, <<coach_code, class, berth_number,
\* berth_type>>: a plain row, the same berth written with other case and
\* padding, a row without berth number, a row without class (a sheet row
\* without coach code is skipped by the ingestion).
PrsValues ==
  {<<Some(B1), Some(SL), BerthOne, Some(LB)>>,
   <<Some(B1Padded), Some(SLLower), BerthOne, Some(LB)>>,
   <<Some(B1), Some(SL), BerthAbsent, Some(LB)>>,
   <<Some(B1), NULL, BerthOne, Some(LB)>>}

\* Column values of the rows of mdms, <<layout_variant_no, prs_coach_code,
\* coach_class, berth_no, berth_qualifier>>: the plain berth with the PRS
\* type, the same berth with another qualifier (written with other case and
\* padding), with no qualifier, a row without berth number, a row without
\* coach code.
MdmsValues ==
  {<<Some(V1), Some(B1), Some(SL), BerthOne, Some(LB)>>,
   <<Some(V1), Some(B1Padded), Some(SLLower), BerthOne, Some(UB)>>,
   <<Some(V1), Some(B1), Some(SL), BerthOne, NULL>>,
   <<Some(V1), Some(B1), Some(SL), BerthAbsent, Some(LB)>>,
   <<Some(V1), NULL, Some(SL), BerthOne, Some(LB)>>}

\* A relation holding the given rows.  Rows are scanned in heap order, which
\* is not the order of their serial numbers (an UPDATE moves a row): the
\* explored databases number the rows against the scan order, serial numbers n..1.
PrsTable(vs) ==
  [i \in 1..Len(vs) |->
     PrsRow(Len(vs) + 1 - i, vs[i][1], vs[i][2], vs[i][3], vs[i][4])]

MdmsTable(vs) ==
  [i \in 1..Len(vs) |->
     MdmsRow(Len(vs) + 1 - i, vs[i][1], vs[i][2], vs[i][3], vs[i][4], vs[i][5])]

\* All sequences over S of length at most n.
SeqUpTo(S, n) == UNION {[1..k -> S] : k \in 0..n}

(***************************************************************************)
(* The ingestion: parseAndInsertExcel and the connection pool              *)
(*                                                                         *)
(* Every statement of the ingestion, BEGIN and COMMIT included, and every  *)
(* query of the services goes through query(text, params), which is        *)
(* pool.query: the pool hands the statement to whichever client is idle    *)
(* at that moment and takes the client back when the statement is done.    *)
(* A transaction belongs to the client that ran BEGIN.  A statement that   *)
(* runs on that client runs inside the transaction; a statement that runs  *)
(* on another client is on its own (autocommit).                           *)
(***************************************************************************)
\* Number of clients of the pool that take part.
MaxClients == 2

PoolClients == 1..MaxClients

\* The rows of the PRS and MDMS sheets below the header row.
PrsSheet ==
  <<[serialNo |-> Some(1), coachCode |-> Some(B1), class |-> Some(SL),
     berthNumber |-> [type |-> "number", n |-> 1], berthType |-> Some(UB)],
    [serialNo |-> Some(2), coachCode |-> NULL, class |-> Some(SL),
     berthNumber |-> [type |-> "number", n |-> 1], berthType |-> Some(UB)]>>

MdmsSheet ==
  <<[serialNo |-> Some(1), layoutVariantNo |-> Some(V1), prsCoachCode |-> Some(B1),
     coachClass |-> Some(SL), berthNo |-> [type |-> "number", n |-> 1],
     berthQualifier |-> Some(UB)]>>

\* The rows inserted into prs: a sheet row without serial number or coach
\* code is skipped.
PRS ==
  LET Valid(row) == ~IsNull(row.serialNo) /\ ~IsNull(row.coachCode)
      Values(row) == PrsRow(Val(row.serialNo), row.coachCode, row.class,
                            validBerthNumber(row.berthNumber), row.berthType)
  IN  MapSeq(SelectSeq(PrsSheet, Valid), Values)

\* The rows inserted into mdms: a sheet row without serial number is skipped.
MDMS ==
  LET Valid(row) == ~IsNull(row.serialNo)
      Values(row) == MdmsRow(Val(row.serialNo), row.layoutVariantNo, row.prsCoachCode,
                             row.coachClass, validBerthNumber(row.berthNo),
                             row.berthQualifier)
  IN  MapSeq(SelectSeq(MdmsSheet, Valid), Values)

\* The statements parseAndInsertExcel sends, in order, each through query().
Statements ==
  LET InsertPrs(row) == [text |-> "INSERT", table |-> "prs", row |-> row]
      InsertMdms(row) == [text |-> "INSERT", table |-> "mdms", row |-> row]
  IN  <<[text |-> "BEGIN"],
        [text |-> "DELETE", table |-> "prs"],
        [text |-> "DELETE", table |-> "mdms"]>>
      \o MapSeq(PRS, InsertPrs)
      \o MapSeq(MDMS, InsertMdms)
      \o <<[text |-> "COMMIT"]>>

\* No client has an open transaction.
NoClient == 0

\* What an open transaction has done and not committed: the rows of each
\* relation it deleted (the first `deleted` rows of the heap) and the rows
\* it inserted.
NoWrites == [deleted |-> [prs |-> 0, mdms |-> 0],
             inserted |-> [prs |-> <<>>, mdms |-> <<>>]]

\* parseAndInsertExcel has not been called: `sent` statements are sent, the
\* transaction is open on client `txn`; `failed` is set once the call has
\* thrown; `old` keeps the contents of the two relations found by BEGIN
\* (history, read by no statement).
NotIngesting ==
  [sent |-> 0, txn |-> NoClient, writes |-> NoWrites, failed |-> FALSE, old |-> <<>>]

\* A call of findDiscrepancies in progress: the contents each of its queries,
\* sent so far, was evaluated on.
NotReading == [seen |-> <<>>]

\* The application runs without SmartSeeder instance (none was constructed).
NoSeeder == [instance |-> FALSE]

\* simulateChanges has not been called: no backup table exists.
NoSimulation == [backup |-> FALSE]

(***************************************************************************)
(* The service as a state machine                                          *)
(***************************************************************************)
NoResponse == [op |-> "none"]

Init ==
  /\ prs \in {PrsTable(vs) : vs \in SeqUpTo(PrsValues, MaxRows)}
  /\ mdms \in {MdmsTable(vs) : vs \in SeqUpTo(MdmsValues, MaxRows)}
  /\ response = NoResponse
  /\ previous = NoResponse
  /\ ingestion = NotIngesting
  /\ reader = NotReading
  /\ seeder = NoSeeder
  /\ simulation = NoSimulation

\* findDiscrepancies consuming the PRS rows it has reported.
FindDiscrepanciesConsuming ==
  /\ response = NoResponse
  /\ response' = [op |-> "findDiscrepancies", body |-> findDiscrepancies(prs, mdms)]
  /\ prs' = <<>>
  /\ UNCHANGED <<mdms, previous, ingestion, reader, seeder, simulation>>

\* GET /discrepancies: DiscrepancyService.findDiscrepancies
FindDiscrepancies ==
  /\ response = NoResponse
  /\ response' = [op |-> "findDiscrepancies", body |-> findDiscrepancies(prs, mdms)]
  /\ UNCHANGED <<prs, mdms, previous, ingestion, reader, seeder, simulation>>

\* GET /discrepancies/detailed-summary: DiscrepancyService.getDetailedSummary
GetDetailedSummary ==
  /\ response = NoResponse
  /\ response' = [op |-> "getDetailedSummary", body |-> getDetailedSummary(prs, mdms)]
  /\ UNCHANGED <<prs, mdms, previous, ingestion, reader, seeder, simulation>>

\* GET /duplicates: DuplicateService.findDuplicates
FindDuplicates ==
  /\ response = NoResponse
  /\ response' = [op |-> "findDuplicates", body |-> findDuplicates(prs, mdms)]
  /\ UNCHANGED <<prs, mdms, previous, ingestion, reader, seeder, simulation>>

\* GET /duplicates/detailed-summary: DuplicateService.getDetailedDuplicateSummary
GetDetailedDuplicateSummary ==
  /\ response = NoResponse
  /\ response' = [op |-> "getDetailedDuplicateSummary",
                  body |-> getDetailedDuplicateSummary(prs, mdms)]
  /\ UNCHANGED <<prs, mdms, previous, ingestion, reader, seeder, simulation>>

\* The controller has sent the body; the service is ready for the next call.
Reply ==
  /\ response # NoResponse
  /\ response' = NoResponse
  /\ UNCHANGED <<prs, mdms, previous, ingestion, reader, seeder, simulation>>

Next ==
  \/ FindDiscrepancies
  \/ GetDetailedSummary
  \/ FindDuplicates
  \/ GetDetailedDuplicateSummary
  \/ Reply

Spec == Init /\ [][Next]_vars

(***************************************************************************)
(* The order of a query result                                             *)
(*                                                                         *)
(* None of the three queries of findDiscrepancies has an ORDER BY: the     *)
(* rows come in the order the executor produces them, which the contents   *)
(* of the relations do not fix (plan, physical placement, scan start).     *)
(* Rescan lets that order change between two calls; the rows stay the      *)
(* same.  Remember is the reply of a call whose body an observer keeps,    *)
(* together with the relations it was computed from (`previous` is a       *)
(* history variable: no operation of the service reads it).                *)
(***************************************************************************)
\* The sequences holding the rows of T in another order.
Reorderings(T) ==
  {[k \in 1..Len(T) |-> T[f[k]]] :
     f \in {g \in [1..Len(T) -> 1..Len(T)] : \A a, b \in 1..Len(T) : a # b => g[a] # g[b]}}

Rescan ==
  /\ response = NoResponse
  /\ prs' \in Reorderings(prs)
  /\ mdms' \in Reorderings(mdms)
  /\ <<prs', mdms'>> # <<prs, mdms>>
  /\ UNCHANGED <<response, previous, ingestion, reader, seeder, simulation>>

Remember ==
  /\ response.op \in {"findDiscrepancies", "getDetailedSummary"}
  /\ previous' = [op |-> response.op, body |-> response.body, prs |-> prs, mdms |-> mdms]
  /\ response' = NoResponse
  /\ UNCHANGED <<prs, mdms, ingestion, reader, seeder, simulation>>

NextScan ==
  \/ Next
  \/ Rescan
  \/ Remember

SpecScan == Init /\ [][NextScan]_vars

(***************************************************************************)
(* The filters: by kind / origin and by coach code                         *)
(***************************************************************************)
\* The kinds the controller accepts for /type/:type of the discrepancies.
DiscrepancyTypes == {"TYPE_MISMATCH", "MISSING_IN_PRS", "MISSING_IN_MDMS"}

\* The origins the controller accepts for /type/:type of the duplicates.
DuplicateTypes == {"WITHIN_PRS", "WITHIN_MDMS", "CROSS_TABLE"}

\* The values a caller passes as `type`: the recognized ones and, for each
\* filter, one value it does not recognize.
RequestedDiscrepancyTypes == DiscrepancyTypes \cup {"CROSS_TABLE"}

RequestedDuplicateTypes == DuplicateTypes \cup {"TYPE_MISMATCH"}

\* The values a caller passes as `coachCode`.
B1Lower == <<"b", "1">>

RequestedCoachCodes == {B1, B1Lower}

\* The queries a call of findDiscrepancies / findDuplicates sends to the
\* database, in the order of the `await query(...)` statements.
findDiscrepanciesQueries == <<"typeMismatchQuery", "missingInMdmsQuery", "missingInPrsQuery">>

findDuplicatesQueries ==
  <<"prsDuplicatesQuery", "mdmsDuplicatesQuery", "crossTableDuplicatesQuery">>

\* DiscrepancyService.getDiscrepanciesByType:
\*   allDiscrepancies.discrepancies.filter(d => d.discrepancyType === type)
getDiscrepanciesByType(P, M, type) ==
  LET OfRequestedType(d) == d.discrepancyType = type
  IN  SelectSeq(findDiscrepancies(P, M).discrepancies, OfRequestedType)

\* DiscrepancyService.getDiscrepanciesForCoachCode:
\*   allDiscrepancies.discrepancies.filter(d => d.coachCode === coachCode)
\* (coachCode is a string: a null d.coachCode is not equal to it).
getDiscrepanciesForCoachCode(P, M, coachCode) ==
  LET ForCoach(d) == d.coachCode = Some(coachCode)
  IN  SelectSeq(findDiscrepancies(P, M).discrepancies, ForCoach)

\* DuplicateService.getDuplicatesByType: findDuplicates first, then the
\* switch on type, whose default branch throws.
getDuplicatesByType(P, M, type) ==
  LET Switch(allDuplicates) ==
        IF type = "WITHIN_PRS"
        THEN [outcome |-> "returned", value |-> allDuplicates.duplicates.prs]
        ELSE IF type = "WITHIN_MDMS"
        THEN [outcome |-> "returned", value |-> allDuplicates.duplicates.mdms]
        ELSE IF type = "CROSS_TABLE"
        THEN [outcome |-> "returned", value |-> allDuplicates.duplicates.crossTable]
        ELSE [outcome |-> "thrown", value |-> "Invalid duplicate type"]
  IN  Const(findDuplicates(P, M), Switch)

\* DuplicateService.getDuplicatesForCoachCode
getDuplicatesForCoachCode(P, M, coachCode) ==
  LET ForCoach(d) == d.coachCode = Some(coachCode)
      Filtered(allDuplicates) ==
        [prs |-> SelectSeq(allDuplicates.duplicates.prs, ForCoach),
         mdms |-> SelectSeq(allDuplicates.duplicates.mdms, ForCoach),
         crossTable |-> SelectSeq(allDuplicates.duplicates.crossTable, ForCoach)]
  IN  Const(findDuplicates(P, M), Filtered)

\* A caller inside the backend calls DiscrepancyService.getDiscrepanciesByType.
CallGetDiscrepanciesByType ==
  /\ response = NoResponse
  /\ \E type \in RequestedDiscrepancyTypes :
       response' = [op |-> "DiscrepancyService.getDiscrepanciesByType",
                    type |-> type,
                    outcome |-> "returned",
                    queries |-> findDiscrepanciesQueries,
                    body |-> getDiscrepanciesByType(prs, mdms, type)]
  /\ UNCHANGED <<prs, mdms, previous, ingestion, reader, seeder, simulation>>

\* A caller inside the backend calls DuplicateService.getDuplicatesByType.
CallGetDuplicatesByType ==
  /\ response = NoResponse
  /\ \E type \in RequestedDuplicateTypes :
       LET result == getDuplicatesByType(prs, mdms, type)
       IN  response' = [op |-> "DuplicateService.getDuplicatesByType",
                        type |-> type,
                        outcome |-> result.outcome,
                        queries |-> findDuplicatesQueries,
                        body |-> result.value]
  /\ UNCHANGED <<prs, mdms, previous, ingestion, reader, seeder, simulation>>

\* GET /discrepancies/type/:type (controller getDiscrepanciesByType)
GetDiscrepanciesByType ==
  /\ response = NoResponse
  /\ \E type \in RequestedDiscrepancyTypes :
       IF type \notin DiscrepancyTypes
       THEN response' = [op |-> "getDiscrepanciesByType", type |-> type, status |-> 400,
                         queries |-> <<>>, body |-> "Invalid discrepancy type"]
       ELSE LET Data(discrepancies) ==
                  [type |-> type, count |-> Len(discrepancies),
                   discrepancies |-> discrepancies]
            IN  response' = [op |-> "getDiscrepanciesByType", type |-> type, status |-> 200,
                             queries |-> findDiscrepanciesQueries,
                             body |-> Const(getDiscrepanciesByType(prs, mdms, type), Data)]
  /\ UNCHANGED <<prs, mdms, previous, ingestion, reader, seeder, simulation>>

\* GET /duplicates/type/:type (controller getDuplicatesByType)
GetDuplicatesByType ==
  /\ response = NoResponse
  /\ \E type \in RequestedDuplicateTypes :
       IF type \notin DuplicateTypes
       THEN response' = [op |-> "getDuplicatesByType", type |-> type, status |-> 400,
                         queries |-> <<>>, body |-> "Invalid duplicate type"]
       ELSE LET Data(duplicates) ==
                  [type |-> type, count |-> Len(duplicates), duplicates |-> duplicates]
            IN  response' = [op |-> "getDuplicatesByType", type |-> type, status |-> 200,
                             queries |-> findDuplicatesQueries,
                             body |-> Const(getDuplicatesByType(prs, mdms, type).value, Data)]
  /\ UNCHANGED <<prs, mdms, previous, ingestion, reader, seeder, simulation>>

\* GET /discrepancies/coach/:coachCode (the route parameter is never empty)
GetDiscrepanciesForCoachCode ==
  /\ response = NoResponse
  /\ \E coachCode \in RequestedCoachCodes :
       response' = [op |-> "getDiscrepanciesForCoachCode", coachCode |-> coachCode,
                    status |-> 200, queries |-> findDiscrepanciesQueries,
                    body |-> getDiscrepanciesForCoachCode(prs, mdms, coachCode)]
  /\ UNCHANGED <<prs, mdms, previous, ingestion, reader, seeder, simulation>>

\* GET /duplicates/coach/:coachCode
GetDuplicatesForCoachCode ==
  /\ response = NoResponse
  /\ \E coachCode \in RequestedCoachCodes :
       response' = [op |-> "getDuplicatesForCoachCode", coachCode |-> coachCode,
                    status |-> 200, queries |-> findDuplicatesQueries,
                    body |-> getDuplicatesForCoachCode(prs, mdms, coachCode)]
  /\ UNCHANGED <<prs, mdms, previous, ingestion, reader, seeder, simulation>>

NextApi ==
  \/ Next
  \/ CallGetDiscrepanciesByType
  \/ CallGetDuplicatesByType
  \/ GetDiscrepanciesByType
  \/ GetDuplicatesByType
  \/ GetDiscrepanciesForCoachCode
  \/ GetDuplicatesForCoachCode

SpecApi == Init /\ [][NextApi]_vars

(***************************************************************************)
(* Ingestion and a concurrent findDiscrepancies, statement by statement    *)
(*                                                                         *)
(* parseAndInsertExcel awaits each statement before it sends the next;     *)
(* findDiscrepancies awaits each of its three queries likewise.  Between   *)
(* two statements of the one, statements of the other may run.  Reads      *)
(* never wait (PostgreSQL, READ COMMITTED): a statement sees what is       *)
(* committed when it starts, and the writes of its own transaction.        *)
(***************************************************************************)
\* Largest number of rows a relation holds when an explored ingestion starts.
MaxRowsReplaced == 1

\* The contents of the two relations as a statement on client c sees them.
View(c) ==
  IF ingestion.txn = c
  THEN [prs |-> SubSeq(prs, ingestion.writes.deleted.prs + 1, Len(prs))
                \o ingestion.writes.inserted.prs,
        mdms |-> SubSeq(mdms, ingestion.writes.deleted.mdms + 1, Len(mdms))
                 \o ingestion.writes.inserted.mdms]
  ELSE [prs |-> prs, mdms |-> mdms]

\* The next statement of the ingestion, if one is left.
Pending(text) ==
  /\ ~ingestion.failed
  /\ ingestion.sent < Len(Statements)
  /\ Statements[ingestion.sent + 1].text = text

\* await query('BEGIN')
IngestBegin ==
  \E c \in PoolClients :
    /\ Pending("BEGIN")
    /\ Len(prs) <= MaxRowsReplaced
    /\ Len(mdms) <= MaxRowsReplaced
    /\ ingestion' = [sent |-> 1, txn |-> c, writes |-> NoWrites, failed |-> FALSE,
                     old |-> [prs |-> prs, mdms |-> mdms]]
    /\ UNCHANGED <<prs, mdms, response, previous, reader, seeder, simulation>>

\* await query('DELETE FROM prs'), await query('DELETE FROM mdms')
IngestDelete ==
  \E c \in PoolClients :
    /\ Pending("DELETE")
    /\ LET table == Statements[ingestion.sent + 1].table
           rows == IF table = "prs" THEN prs ELSE mdms
       IN  IF ingestion.txn = c
           THEN /\ ingestion' = [ingestion EXCEPT !.sent = @ + 1,
                                                  !.writes.deleted[table] = Len(rows)]
                /\ UNCHANGED <<prs, mdms, seeder, simulation>>
           ELSE /\ ingestion' = [ingestion EXCEPT !.sent = @ + 1]
                /\ prs' = IF table = "prs" THEN <<>> ELSE prs
                /\ mdms' = IF table = "mdms" THEN <<>> ELSE mdms
    /\ UNCHANGED <<response, previous, reader, seeder, simulation>>

\* await query('INSERT INTO prs ...', [...]), one call for each row of PRS,
\* then await query('INSERT INTO mdms ...', [...]) for each row of MDMS
IngestInsert ==
  \E c \in PoolClients :
    /\ Pending("INSERT")
    /\ LET table == Statements[ingestion.sent + 1].table
           row == Statements[ingestion.sent + 1].row
       IN  IF ingestion.txn = c
           THEN /\ ingestion' = [ingestion EXCEPT !.sent = @ + 1,
                                                  !.writes.inserted[table] = Append(@, row)]
                /\ UNCHANGED <<prs, mdms, seeder, simulation>>
           ELSE /\ ingestion' = [ingestion EXCEPT !.sent = @ + 1]
                /\ prs' = IF table = "prs" THEN Append(prs, row) ELSE prs
                /\ mdms' = IF table = "mdms" THEN Append(mdms, row) ELSE mdms
    /\ UNCHANGED <<response, previous, reader, seeder, simulation>>

\* await query('COMMIT'): on the client of the transaction its writes become
\* the contents; on another client there is no transaction to commit.
IngestCommit ==
  \E c \in PoolClients :
    /\ Pending("COMMIT")
    /\ IF ingestion.txn = c
       THEN /\ prs' = View(c).prs
            /\ mdms' = View(c).mdms
            /\ ingestion' = [ingestion EXCEPT !.sent = @ + 1, !.txn = NoClient,
                                              !.writes = NoWrites]
       ELSE /\ ingestion' = [ingestion EXCEPT !.sent = @ + 1]
            /\ UNCHANGED <<prs, mdms, seeder, simulation>>
    /\ UNCHANGED <<response, previous, reader, seeder, simulation>>

\* The try block throws once the relations are cleared (a sheet is missing,
\* or the INSERT that is next fails) and the catch block runs
\* await query('ROLLBACK') before it throws again: on the client of the
\* transaction its writes are dropped; on another client there is no
\* transaction to roll back, and the one that is open stays open.
IngestFail ==
  \E c \in PoolClients :
    /\ ~ingestion.failed
    /\ Pending("INSERT")
    /\ IF ingestion.txn = c
       THEN ingestion' = [ingestion EXCEPT !.failed = TRUE, !.txn = NoClient,
                                          !.writes = NoWrites]
       ELSE ingestion' = [ingestion EXCEPT !.failed = TRUE]
    /\ UNCHANGED <<prs, mdms, response, previous, reader, seeder, simulation>>

\* findDiscrepancies: await query(typeMismatchQuery), then
\* await query(missingInMdmsQuery), then await query(missingInPrsQuery)
SendQuery ==
  \E c \in PoolClients :
    /\ response = NoResponse
    /\ Len(reader.seen) < Len(findDiscrepanciesQueries)
    /\ reader' = [seen |-> Append(reader.seen, View(c))]
    /\ UNCHANGED <<prs, mdms, response, previous, ingestion, seeder, simulation>>

\* findDiscrepancies returns: the rows of each query, in turn, and the counts.
ReturnDiscrepancies ==
  /\ response = NoResponse
  /\ Len(reader.seen) = Len(findDiscrepanciesQueries)
  /\ LET OfKind(k, kind) ==
           LET Is(d) == d.discrepancyType = kind
           IN  SelectSeq(findDiscrepancies(reader.seen[k].prs,
                                           reader.seen[k].mdms).discrepancies, Is)
         Result(a, b, c) ==
           [totalDiscrepancies |-> Len(a) + Len(b) + Len(c),
            typeMismatchCount |-> Len(a),
            missingInMdmsCount |-> Len(b),
            missingInPrsCount |-> Len(c),
            discrepancies |-> a \o b \o c]
     IN  response' =
           [op |-> "findDiscrepancies",
            body |-> CHOOSE result \in
                       {Result(a, b, c) : a \in {OfKind(1, "TYPE_MISMATCH")},
                                          b \in {OfKind(2, "MISSING_IN_MDMS")},
                                          c \in {OfKind(3, "MISSING_IN_PRS")}} : TRUE]
  /\ reader' = NotReading
  /\ UNCHANGED <<prs, mdms, previous, ingestion, seeder, simulation>>

NextIngest ==
  \/ IngestBegin
  \/ IngestDelete
  \/ IngestInsert
  \/ IngestCommit
  \/ IngestFail
  \/ SendQuery
  \/ ReturnDiscrepancies

SpecIngest == Init /\ [][NextIngest]_vars

(***************************************************************************)
(* Databases for the grouping of MDMS rows                                 *)
(*                                                                         *)
(* The rows above all carry one layout variant, and their class goes with  *)
(* the way the coach code is written.  The grouping of findDuplicates is   *)
(* explored as well over MDMS rows that differ from the plain one in the   *)
(* class alone and in the layout variant alone.                            *)
(***************************************************************************)
V2 == <<"V", "2">>

MdmsGroupingValues ==
  MdmsValues \cup {<<Some(V1), Some(B1), Some(SLLower), BerthOne, Some(LB)>>,
                   <<Some(V2), Some(B1), Some(SL), BerthOne, Some(LB)>>}

InitGrouping ==
  /\ prs \in {PrsTable(vs) : vs \in SeqUpTo(PrsValues, 1)}
  /\ mdms \in {MdmsTable(vs) : vs \in SeqUpTo(MdmsGroupingValues, MaxRows)}
  /\ response = NoResponse
  /\ previous = NoResponse
  /\ ingestion = NotIngesting
  /\ reader = NotReading
  /\ seeder = NoSeeder
  /\ simulation = NoSimulation

NextGrouping ==
  \/ FindDuplicates
  \/ Reply

SpecGrouping == InitGrouping /\ [][NextGrouping]_vars

(***************************************************************************)
(* The SmartSeeder (services/smartSeeder.js) and its HTTP handlers         *)
(*                                                                         *)
(* One instance, one watched spreadsheet.  The callers of the instance are *)
(* the startup (initialize), the callback of the debounce timer, POST      *)
(* /check and POST /force.  Node runs one callback at a time: an action is *)
(* the code of one caller from one await to the next.  The position of     *)
(* each caller is pc[caller]:                                              *)
(*   "checking"  inside checkForChanges, awaiting the two COUNT queries;   *)
(*   "checked"   checkForChanges has returned `result`;                    *)
(*   "seeding"   inside seedWithWhitespaceCleanup, awaiting the seeder     *)
(*               child process;                                            *)
(*   "cleaning"  awaiting cleanExistingWhitespace.                         *)
(* The fields events, fired, checks, stale, seeded, reading, lastStart and *)
(* message are history: they record what happened and are read by no       *)
(* statement of the program.                                               *)
(***************************************************************************)
\* Largest number of file-system events on the watched file that is explored.
MaxEvents == 2

\* The md5 of the contents the watched spreadsheet can have.
Hashes == {"h1", "h2"}

Callers == {"initialize", "timer", "check", "force"}

\* What checkForChanges returned: nothing yet, the value false (no watch
\* directory, or no spreadsheet in it), or the object {fileChanged, dbEmpty}.
NoResult == [returned |-> "none", fileChanged |-> FALSE, dbEmpty |-> FALSE]

ReturnedFalse == [returned |-> "false", fileChanged |-> FALSE, dbEmpty |-> FALSE]

NoRun == [caller |-> "none", result |-> NoResult]

\* new SmartSeeder(config), and loadFileHashes: the spreadsheet has the hash
\* `file` ("none": there is no spreadsheet), the hash file holds `stored`
\* for it ("undefined": the file is not tracked).
SmartSeeder(file, stored) ==
  [instance |-> TRUE,
   file |-> file,
   fileHashes |-> stored,
   debounceTimer |-> "null",
   isSeeding |-> FALSE,
   watching |-> FALSE,
   listening |-> FALSE,
   pc |-> [c \in Callers |-> "idle"],
   changed |-> [c \in Callers |-> FALSE],
   result |-> [c \in Callers |-> NoResult],
   events |-> 0,
   fired |-> 0,
   checks |-> 0,
   stale |-> [c \in Callers |-> FALSE],
   seeded |-> IF stored = "undefined" THEN "none" ELSE stored,
   reading |-> "none",
   lastStart |-> NoRun,
   message |-> "none"]

InitSeeder ==
  /\ prs = PRS
  /\ mdms \in {MDMS, <<>>}
  /\ response = NoResponse
  /\ previous = NoResponse
  /\ ingestion = NotIngesting
  /\ reader = NotReading
  /\ seeder \in {SmartSeeder(file, stored) :
                   file \in {"h1", "none"}, stored \in {"h1", "undefined"}}
  /\ simulation = NoSimulation

\* checkForChanges up to its first await: the hash of every spreadsheet is
\* compared with the stored one, and stored when it differs.
CheckBegin(s, c) ==
  IF s.file = "none"
  THEN [s EXCEPT !.pc[c] = "checked", !.result[c] = ReturnedFalse,
                 !.stale[c] = FALSE]
  ELSE [s EXCEPT !.pc[c] = "checking",
                 !.changed[c] = (s.file # s.fileHashes),
                 !.fileHashes = s.file,
                 !.stale[c] = (s.file # s.seeded)]

\* The caller c is back from seedWithWhitespaceCleanup, or did not call it:
\* initialize goes on to startWatching and the application starts to listen.
Returned(s, c) ==
  IF c = "initialize"
  THEN [s EXCEPT !.pc[c] = "done", !.watching = TRUE, !.listening = TRUE,
                 !.changed[c] = FALSE, !.result[c] = NoResult, !.stale[c] = FALSE]
  ELSE [s EXCEPT !.pc[c] = "idle",
                 !.changed[c] = FALSE, !.result[c] = NoResult, !.stale[c] = FALSE]

\* seedWithWhitespaceCleanup has thrown to the caller c: the application
\* does not start when initialize throws.
Thrown(s, c) ==
  IF c = "initialize"
  THEN [s EXCEPT !.pc[c] = "failed",
                 !.changed[c] = FALSE, !.result[c] = NoResult, !.stale[c] = FALSE]
  ELSE [s EXCEPT !.pc[c] = "idle",
                 !.changed[c] = FALSE, !.result[c] = NoResult, !.stale[c] = FALSE]

\* seedWithWhitespaceCleanup without the test of isSeeding.
SeedCallUnguarded(s, c) ==
  [s EXCEPT !.isSeeding = TRUE, !.pc[c] = "seeding",
            !.lastStart = [caller |-> c, result |-> s.result[c]],
            !.changed[c] = FALSE, !.result[c] = NoResult, !.stale[c] = FALSE]

\* seedWithWhitespaceCleanup up to its first await, called by c.
SeedCall(s, c) ==
  IF s.isSeeding
  THEN Returned(s, c)
  ELSE [s EXCEPT !.isSeeding = TRUE, !.pc[c] = "seeding",
                 !.lastStart = [caller |-> c, result |-> s.result[c]],
                 !.changed[c] = FALSE, !.result[c] = NoResult, !.stale[c] = FALSE]

\* await smartSeeder.initialize(), first statement: checkForChanges
Initialize ==
  /\ seeder.instance
  /\ seeder.pc["initialize"] = "idle"
  /\ ~seeder.listening
  /\ seeder' = CheckBegin(seeder, "initialize")
  /\ UNCHANGED <<prs, mdms, response, previous, ingestion, reader, simulation>>

\* checkForChanges from the two COUNT queries to its return.
CheckForChangesReturns ==
  \E c \in Callers :
    /\ seeder.instance
    /\ seeder.pc[c] = "checking"
    /\ LET dbNeedsSeeding == Len(prs) = 0 \/ Len(mdms) = 0
           hasChanges == seeder.changed[c] \/ dbNeedsSeeding
       IN  seeder' = [seeder EXCEPT
                        !.pc[c] = "checked",
                        !.result[c] = [returned |-> "object",
                                       fileChanged |-> hasChanges /\ ~dbNeedsSeeding,
                                       dbEmpty |-> dbNeedsSeeding]]
    /\ UNCHANGED <<prs, mdms, response, previous, ingestion, reader, simulation>>

\* initialize: const { fileChanged, dbEmpty } = await this.checkForChanges();
\* if (fileChanged || dbEmpty) await this.seedWithWhitespaceCleanup()
InitializeDecides ==
  /\ seeder.instance
  /\ seeder.pc["initialize"] = "checked"
  /\ seeder' = IF seeder.result["initialize"].fileChanged
                  \/ seeder.result["initialize"].dbEmpty
               THEN SeedCall(seeder, "initialize")
               ELSE Returned(seeder, "initialize")
  /\ UNCHANGED <<prs, mdms, response, previous, ingestion, reader, simulation>>

\* The timer callback and POST /check:
\*   const hasChanges = await seeder.checkForChanges();
\*   if (hasChanges) await seeder.seedWithWhitespaceCleanup()
\* The object {fileChanged, dbEmpty} is truthy, the value false is not.
CheckDecides ==
  \E c \in {"timer", "check"} :
    /\ seeder.instance
    /\ seeder.pc[c] = "checked"
    /\ LET hasChanges == seeder.result[c].returned # "false"
           told == IF c = "check"
                   THEN [seeder EXCEPT !.message =
                           IF hasChanges THEN "Changes detected and seeding completed"
                           ELSE "No changes detected"]
                   ELSE seeder
       IN  seeder' = IF hasChanges THEN SeedCall(told, c) ELSE Returned(told, c)
    /\ UNCHANGED <<prs, mdms, response, previous, ingestion, reader, simulation>>

\* POST /force
ForceSeeding ==
  /\ seeder.instance
  /\ seeder.listening
  /\ seeder.pc["force"] = "idle"
  /\ seeder' = IF seeder.isSeeding
               THEN [seeder EXCEPT !.message = "Seeding already in progress"]
               ELSE SeedCall([seeder EXCEPT !.message = "none"], "force")
  /\ UNCHANGED <<prs, mdms, response, previous, ingestion, reader, simulation>>

\* POST /check, first statement: checkForChanges
CheckForChanges ==
  /\ seeder.instance
  /\ seeder.listening
  /\ seeder.pc["check"] = "idle"
  /\ seeder' = CheckBegin([seeder EXCEPT !.message = "none"], "check")
  /\ UNCHANGED <<prs, mdms, response, previous, ingestion, reader, simulation>>

\* The seeder child process ends well: the relations hold the rows of the
\* sheets.  seedWithWhitespaceCleanup goes on to cleanExistingWhitespace.
SeederExits ==
  \E c \in Callers :
    /\ seeder.instance
    /\ seeder.pc[c] = "seeding"
    /\ seeder.file # "none"
    /\ prs' = PRS
    /\ mdms' = MDMS
    /\ seeder' = [seeder EXCEPT !.pc[c] = "cleaning", !.reading = seeder.file]
    /\ UNCHANGED <<response, previous, ingestion, reader, simulation>>

\* The seeder child process fails and isSeeding is left set (no finally).
SeederFailsHoldingLock ==
  \E c \in Callers, cleared \in BOOLEAN :
    /\ seeder.instance
    /\ seeder.pc[c] = "seeding"
    /\ prs' = IF cleared THEN <<>> ELSE prs
    /\ mdms' = IF cleared THEN <<>> ELSE mdms
    /\ seeder' = Thrown([seeder EXCEPT !.lastStart = NoRun, !.reading = "none"], c)
    /\ UNCHANGED <<response, previous, ingestion, reader, simulation>>

\* The seeder child process fails, with the relations as they were or
\* cleared: catch logs and throws again, finally releases isSeeding.
SeederFails ==
  \E c \in Callers, cleared \in BOOLEAN :
    /\ seeder.instance
    /\ seeder.pc[c] = "seeding"
    /\ prs' = IF cleared THEN <<>> ELSE prs
    /\ mdms' = IF cleared THEN <<>> ELSE mdms
    /\ seeder' = Thrown([seeder EXCEPT !.isSeeding = FALSE, !.lastStart = NoRun,
                                       !.reading = "none"], c)
    /\ UNCHANGED <<response, previous, ingestion, reader, simulation>>

\* cleanExistingWhitespace is done (the rows of the sheets carry no blanks
\* to trim), the time of the seed is saved, finally releases isSeeding.
CleanupDone ==
  \E c \in Callers :
    /\ seeder.instance
    /\ seeder.pc[c] = "cleaning"
    /\ seeder' = Returned([seeder EXCEPT !.isSeeding = FALSE, !.lastStart = NoRun,
                                         !.seeded = seeder.reading,
                                         !.reading = "none"], c)
    /\ UNCHANGED <<prs, mdms, response, previous, ingestion, reader, simulation>>

\* cleanExistingWhitespace throws: catch, then finally.
CleanupFails ==
  \E c \in Callers :
    /\ seeder.instance
    /\ seeder.pc[c] = "cleaning"
    /\ seeder' = Thrown([seeder EXCEPT !.isSeeding = FALSE, !.lastStart = NoRun,
                                       !.reading = "none"], c)
    /\ UNCHANGED <<prs, mdms, response, previous, ingestion, reader, simulation>>

\* The watched spreadsheet is written, replaced or removed: the callback of
\* fs.watch calls debouncedCheck, which clears the timer and sets a new one.
FileEvent ==
  \E hash \in Hashes \cup {"none"} :
    /\ seeder.instance
    /\ seeder.watching
    /\ seeder.events < MaxEvents
    /\ hash # seeder.file
    /\ seeder' = [seeder EXCEPT !.file = hash, !.events = @ + 1,
                                !.debounceTimer = "pending"]
    /\ UNCHANGED <<prs, mdms, response, previous, ingestion, reader, simulation>>

\* debounceTime has passed since the last event: the timer callback runs up
\* to its first await, if (!this.isSeeding) checkForChanges.  One timer
\* callback at a time is inside checkForChanges.
TimerFires ==
  /\ seeder.instance
  /\ seeder.debounceTimer = "pending"
  /\ seeder.pc["timer"] = "idle" \/ seeder.isSeeding
  /\ LET s == [seeder EXCEPT !.debounceTimer = "fired", !.fired = @ + 1]
     IN  seeder' = IF ~s.isSeeding
                   THEN CheckBegin([s EXCEPT !.checks = @ + 1], "timer")
                   ELSE s
  /\ UNCHANGED <<prs, mdms, response, previous, ingestion, reader, simulation>>

\* POST /stop: seeder.stop() unless a seeding is in progress.
StopSeeder ==
  /\ seeder.instance
  /\ seeder.listening
  /\ seeder.watching
  /\ ~seeder.isSeeding
  /\ seeder' = [seeder EXCEPT !.watching = FALSE,
                              !.debounceTimer =
                                 IF @ = "pending" THEN "cleared" ELSE @]
  /\ UNCHANGED <<prs, mdms, response, previous, ingestion, reader, simulation>>

\* POST /start: seeder.startWatching() unless a watcher exists.
StartSeeder ==
  /\ seeder.instance
  /\ seeder.listening
  /\ ~seeder.watching
  /\ seeder' = [seeder EXCEPT !.watching = TRUE]
  /\ UNCHANGED <<prs, mdms, response, previous, ingestion, reader, simulation>>

NextSeeder ==
  \/ Initialize
  \/ CheckForChangesReturns
  \/ InitializeDecides
  \/ CheckDecides
  \/ ForceSeeding
  \/ CheckForChanges
  \/ SeederExits
  \/ SeederFails
  \/ CleanupDone
  \/ CleanupFails
  \/ FileEvent
  \/ TimerFires
  \/ StopSeeder
  \/ StartSeeder

SpecSeeder == InitSeeder /\ [][NextSeeder]_vars

\* The seeder child process ends, one way or the other, and so does
\* cleanExistingWhitespace: the promises seedWithWhitespaceCleanup awaits are
\* settled in the end.
SpecSeederFair ==
  /\ InitSeeder
  /\ [][NextSeeder]_vars
  /\ WF_vars(SeederExits \/ SeederFails)
  /\ WF_vars(CleanupDone \/ CleanupFails)

(***************************************************************************)
(* The SimulationService                                                   *)
(*                                                                         *)
(* simulateChanges writes synthetic rows into prs and mdms, one method     *)
(* after the other, and restoreOriginalData undoes it with                 *)
(* cleanupSimulatedData and restoreBackedUpRecords.  `simulation` holds    *)
(* the position of the run, the table prs_simulation_backup, and the       *)
(* relations as they were before the run (`original`, a history field no   *)
(* method reads).  ORDER BY RANDOM() LIMIT n is any choice of n rows in    *)
(* any order.                                                              *)
(***************************************************************************)
MaxSimulatedRows == 4

MaxTargetRows == 1

SIMULATED_TYPE ==
  <<"S", "I", "M", "U", "L", "A", "T", "E", "D", "_", "T", "Y", "P", "E">>

SIMULATED == <<"S", "I", "M", "U", "L", "A", "T", "E", "D">>

SIM_VARIANT == <<"S", "I", "M", "_", "V", "A", "R", "I", "A", "N", "T">>

CROSS_SIM == <<"C", "R", "O", "S", "S", "_", "S", "I", "M">>

\* The rows prs and mdms hold before a simulation: berths of one coach with
\* the types LB and UB; an mdms row with and without layout variant.
SimulationPrsValues ==
  {<<Some(B1), Some(SL), BerthOne, Some(LB)>>,
   <<Some(B1), Some(SL), BerthOne, Some(UB)>>}

SimulationMdmsValues ==
  {<<Some(V1), Some(B1), Some(SL), BerthOne, Some(LB)>>,
   <<NULL, Some(B1), Some(SL), BerthOne, Some(UB)>>}

SimulationService(P, M) ==
  [backup |-> FALSE,
   prs_simulation_backup |-> <<>>,
   pc |-> "idle",
   original |-> [prs |-> P, mdms |-> M]]

InitSimulation ==
  /\ prs \in {PrsTable(vs) : vs \in SeqUpTo(SimulationPrsValues, MaxSimulatedRows)}
  /\ mdms \in {MdmsTable(vs) : vs \in SeqUpTo(SimulationMdmsValues, MaxTargetRows)}
  /\ response = NoResponse
  /\ previous = NoResponse
  /\ ingestion = NotIngesting
  /\ reader = NotReading
  /\ seeder = NoSeeder
  /\ simulation = SimulationService(prs, mdms)

Min(a, b) == IF a <= b THEN a ELSE b

\* SELECT ... FROM T ORDER BY RANDOM() LIMIT n: the possible results.
OrderByRandomLimit(T, n) ==
  LET m == Min(n, Len(T))
  IN  {[k \in 1..m |-> T[f[k]]] :
         f \in {g \in [1..m -> 1..Len(T)] :
                  \A a, b \in 1..m : a # b => g[a] # g[b]}}

\* serial_no IN (SELECT serial_no FROM T)
SerialIn(row, T) ==
  /\ ~IsNull(row.serial_no)
  /\ \E k \in 1..Len(T) : T[k].serial_no = row.serial_no

\* await this.createBackup(): CREATE TABLE IF NOT EXISTS prs_simulation_backup.
CreateBackup ==
  /\ simulation.pc = "idle"
  /\ simulation' = [simulation EXCEPT !.backup = TRUE, !.pc = "typeMismatches"]
  /\ UNCHANGED <<prs, mdms, response, previous, ingestion, reader, seeder>>

\* UPDATE prs SET berth_type = 'SIMULATED_TYPE' WHERE serial_no IN
\*   (SELECT serial_no FROM prs ORDER BY RANDOM() LIMIT 5)
SimulateTypeMismatches ==
  /\ simulation.pc = "typeMismatches"
  /\ \E chosen \in OrderByRandomLimit(prs, 5) :
       LET Update(row) == IF SerialIn(row, chosen)
                          THEN [row EXCEPT !.berth_type = Some(SIMULATED_TYPE)]
                          ELSE row
       IN  prs' = MapSeq(prs, Update)
  /\ simulation' = [simulation EXCEPT !.pc = "missingRecords"]
  /\ UNCHANGED <<mdms, response, previous, ingestion, reader, seeder>>

\* INSERT INTO prs_simulation_backup SELECT * FROM (SELECT * FROM prs ORDER BY
\* RANDOM() LIMIT 3); DELETE FROM prs WHERE serial_no IN (SELECT serial_no
\* FROM prs_simulation_backup)
SimulateMissingRecords ==
  /\ simulation.pc = "missingRecords"
  /\ \E records_to_move \in OrderByRandomLimit(prs, 3) :
       LET moved == simulation.prs_simulation_backup \o records_to_move
           Kept(row) == ~SerialIn(row, moved)
       IN  /\ simulation' = [simulation EXCEPT !.backup = TRUE,
                                               !.prs_simulation_backup = moved,
                                               !.pc = "newRecords"]
           /\ prs' = SelectSeq(prs, Kept)
  /\ UNCHANGED <<mdms, response, previous, ingestion, reader, seeder>>

\* The three rows simulateNewRecords inserts into mdms.
SimulatedNewRecords ==
  <<MdmsRow(99991, Some(<<"S", "I", "M", "0", "0", "1">>),
            Some(<<"S", "I", "M", "-", "C", "O", "A", "C", "H", "-", "1">>),
            Some(SL), Some(1), Some(SIMULATED)),
    MdmsRow(99992, Some(<<"S", "I", "M", "0", "0", "2">>),
            Some(<<"S", "I", "M", "-", "C", "O", "A", "C", "H", "-", "2">>),
            Some(<<"A", "C">>), Some(2), Some(SIMULATED)),
    MdmsRow(99993, Some(<<"S", "I", "M", "0", "0", "3">>),
            Some(<<"S", "I", "M", "-", "C", "O", "A", "C", "H", "-", "3">>),
            Some(<<"3", "A">>), Some(3), Some(SIMULATED))>>

SimulateNewRecords ==
  /\ simulation.pc = "newRecords"
  /\ mdms' = mdms \o SimulatedNewRecords
  /\ simulation' = [simulation EXCEPT !.pc = "prsDuplicates"]
  /\ UNCHANGED <<prs, response, previous, ingestion, reader, seeder>>

\* For each of 3 random rows of prs, INSERT INTO prs a row with the serial
\* number 99000 + duplicatesCreated + 1 and the columns of the row.
SimulatePrsDuplicates ==
  /\ simulation.pc = "prsDuplicates"
  /\ \E existingRecords \in OrderByRandomLimit(prs, 3) :
       prs' = prs \o [k \in 1..Len(existingRecords) |->
                        LET record == existingRecords[k]
                        IN  PrsRow(99000 + k, record.coach_code, record.class,
                                   record.berth_number, record.berth_type)]
  /\ simulation' = [simulation EXCEPT !.pc = "mdmsDuplicates"]
  /\ UNCHANGED <<mdms, response, previous, ingestion, reader, seeder>>

\* record.layout_variant_no || 'SIM_VARIANT'
LayoutOrVariant(layout) ==
  IF IsNull(layout) \/ layout = Some(<<>>) THEN Some(SIM_VARIANT) ELSE layout

\* For each of 3 random rows of mdms, INSERT INTO mdms a row with the serial
\* number 99100 + duplicatesCreated + 1.
SimulateMdmsDuplicates ==
  /\ simulation.pc = "mdmsDuplicates"
  /\ \E existingRecords \in OrderByRandomLimit(mdms, 3) :
       mdms' = mdms \o [k \in 1..Len(existingRecords) |->
                          LET record == existingRecords[k]
                          IN  MdmsRow(99100 + k, LayoutOrVariant(record.layout_variant_no),
                                      record.prs_coach_code, record.coach_class,
                                      record.berth_no, record.berth_qualifier)]
  /\ simulation' = [simulation EXCEPT !.pc = "crossTableDuplicates"]
  /\ UNCHANGED <<prs, response, previous, ingestion, reader, seeder>>

\* For each of 2 random rows of prs INNER JOIN mdms, INSERT INTO prs a row
\* with the serial number 99200 + crossDuplicatesCreated + 1 and INSERT INTO
\* mdms one with 99300 + crossDuplicatesCreated + 1 and the layout variant
\* 'CROSS_SIM'.
SimulateCrossTableDuplicates ==
  /\ simulation.pc = "crossTableDuplicates"
  /\ \E matchingRecords \in OrderByRandomLimit(InnerJoin(prs, mdms), 2) :
       /\ prs' = prs \o [k \in 1..Len(matchingRecords) |->
                           LET record == matchingRecords[k]
                           IN  PrsRow(99200 + k, record.p.coach_code, record.p.class,
                                      record.p.berth_number, record.p.berth_type)]
       /\ mdms' = mdms \o [k \in 1..Len(matchingRecords) |->
                             LET record == matchingRecords[k]
                             IN  MdmsRow(99300 + k, Some(CROSS_SIM), record.p.coach_code,
                                         record.p.class, record.p.berth_number,
                                         record.m.berth_qualifier)]
  /\ simulation' = [simulation EXCEPT !.pc = "simulated"]
  /\ UNCHANGED <<response, previous, ingestion, reader, seeder>>

\* serial_no >= 99000 AND serial_no <= 99999
InSimulatedRange(row) ==
  /\ ~IsNull(row.serial_no)
  /\ Val(row.serial_no) >= 99000
  /\ Val(row.serial_no) <= 99999

\* restoreOriginalData, first half: the five statements of
\* cleanupSimulatedData.
CleanupSimulatedData ==
  /\ simulation.pc = "simulated"
  /\ LET NotSimulated(row) == SqlEq(row.berth_qualifier, Some(SIMULATED)) # "T"
         Retype(row) == IF SqlEq(row.berth_type, Some(SIMULATED_TYPE)) = "T"
                        THEN [row EXCEPT !.berth_type = Some(LB)]
                        ELSE row
         OutOfRange(row) == ~InSimulatedRange(row)
         NoVariant(row) ==
           /\ SqlEq(row.layout_variant_no, Some(SIM_VARIANT)) # "T"
           /\ SqlEq(row.layout_variant_no, Some(CROSS_SIM)) # "T"
     IN  /\ prs' = SelectSeq(MapSeq(prs, Retype), OutOfRange)
         /\ mdms' = SelectSeq(SelectSeq(SelectSeq(mdms, NotSimulated), OutOfRange),
                              NoVariant)
  /\ simulation' = [simulation EXCEPT !.pc = "cleaned"]
  /\ UNCHANGED <<response, previous, ingestion, reader, seeder>>

\* INSERT INTO prs SELECT * FROM T ON CONFLICT (serial_no) DO NOTHING, on a
\* relation with a unique index on serial_no: a row whose serial number is
\* already there is skipped.
RECURSIVE InsertOnConflictDoNothing(_, _)
InsertOnConflictDoNothing(P, T) ==
  IF T = <<>> THEN P
  ELSE InsertOnConflictDoNothing(
         IF SerialIn(Head(T), P) THEN P ELSE Append(P, Head(T)), Tail(T))

\* restoreOriginalData, second half: restoreBackedUpRecords.  The relation
\* prs of the schema has no unique index on serial_no, and PostgreSQL rejects
\* ON CONFLICT (serial_no) on it: the method throws before anything is
\* inserted or dropped.  A relation created before with such an index keeps
\* it (CREATE TABLE IF NOT EXISTS): the rows are inserted and the backup
\* table is dropped.
RestoreBackedUpRecords ==
  /\ simulation.pc = "cleaned"
  /\ \E uniqueSerialNo \in BOOLEAN :
       IF uniqueSerialNo
       THEN /\ prs' = InsertOnConflictDoNothing(prs, simulation.prs_simulation_backup)
            /\ simulation' = [simulation EXCEPT !.backup = FALSE,
                                                !.prs_simulation_backup = <<>>,
                                                !.pc = "restored"]
       ELSE /\ prs' = prs
            /\ simulation' = [simulation EXCEPT !.pc = "failed"]
  /\ UNCHANGED <<mdms, response, previous, ingestion, reader, seeder>>

NextSimulation ==
  \/ CreateBackup
  \/ SimulateTypeMismatches
  \/ SimulateMissingRecords
  \/ SimulateNewRecords
  \/ SimulatePrsDuplicates
  \/ SimulateMdmsDuplicates
  \/ SimulateCrossTableDuplicates
  \/ CleanupSimulatedData
  \/ RestoreBackedUpRecords

SpecSimulation == InitSimulation /\ [][NextSimulation]_vars

(***************************************************************************)
(* Vocabulary of the properties                                            *)
(***************************************************************************)
Discrepancies == response.body.discrepancies

IsDiscrepancyResponse == response.op = "findDiscrepancies"

OfType(t) == {k \in 1..Len(Discrepancies) : Discrepancies[k].discrepancyType = t}

\* Two characters that are the same letter up to case.
SameLetter(c, d) ==
  \/ c = d
  \/ \E i \in 1..Len(UpperCase) : {c, d} = {UpperCase[i], LowerCase[i]}

\* s is t with blanks put in front of it and behind it.
PaddingOf(s, t) ==
  \E lead \in 0..Len(s) :
    /\ lead + Len(t) <= Len(s)
    /\ \A i \in 1..Len(s) :
         IF i > lead /\ i <= lead + Len(t) THEN s[i] = t[i - lead] ELSE s[i] = " "

\* The texts a and b differ at most by leading/trailing blanks and letter
\* case: both are paddings of cores that agree letter by letter.
SameUpToPaddingAndCase(a, b) ==
  \E la \in 0..Len(a), lb \in 0..Len(b), n \in 0..Len(a) :
    /\ la + n <= Len(a)
    /\ lb + n <= Len(b)
    /\ PaddingOf(a, SubSeq(a, la + 1, la + n))
    /\ PaddingOf(b, SubSeq(b, lb + 1, lb + n))
    /\ n > 0 => a[la + 1] # " " /\ a[la + n] # " " /\ b[lb + 1] # " " /\ b[lb + n] # " "
    /\ \A i \in 1..n : SameLetter(a[la + i], b[lb + i])

\* The JoinKeys of a PRS row and an MDMS row are equal: every component is
\* present, coach and class agree up to padding and case, the berths agree.
KeyEqual(p, m) ==
  /\ ~IsNull(p.coach_code) /\ ~IsNull(m.prs_coach_code)
  /\ ~IsNull(p.class) /\ ~IsNull(m.coach_class)
  /\ ~IsNull(p.berth_number) /\ ~IsNull(m.berth_no)
  /\ SameUpToPaddingAndCase(Val(p.coach_code), Val(m.prs_coach_code))
  /\ SameUpToPaddingAndCase(Val(p.class), Val(m.coach_class))
  /\ Val(p.berth_number) = Val(m.berth_no)

\* The discrepancy e was derived from the PRS row p / the MDMS row m.
FromPrsRow(e, p) ==
  /\ e.serialNo = p.serial_no
  /\ e.coachCode = p.coach_code
  /\ e.prsClass = p.class
  /\ e.berthNumber = p.berth_number
  /\ e.berthType = p.berth_type

FromMdmsRow(e, m) ==
  /\ e.serialNo = m.serial_no
  /\ e.coachCode = m.prs_coach_code
  /\ e.mdmsClass = m.coach_class
  /\ e.berthNumber = m.berth_no
  /\ e.berthQualifier = m.berth_qualifier

Copies(T, r) == Cardinality({i \in 1..Len(T) : T[i] = r})

(***************************************************************************)
(* C1  Symmetry of totals: in every result of findDiscrepancies,           *)
(* typeMismatchCount + missingInMdmsCount <= |prs| and                     *)
(* typeMismatchCount + missingInPrsCount <= |mdms|, also when several rows *)
(* share a JoinKey.                                                        *)
(***************************************************************************)
C1_SymmetryOfTotals ==
  IsDiscrepancyResponse =>
    /\ response.body.typeMismatchCount + response.body.missingInMdmsCount <= Len(prs)
    /\ response.body.typeMismatchCount + response.body.missingInPrsCount <= Len(mdms)

(***************************************************************************)
(* C2  Score bounds: the dataQualityScore of getDetailedSummary and the    *)
(* dataIntegrityScore of getDetailedDuplicateSummary are numbers within    *)
(* [0, 100] (0..10000 hundredths).                                         *)
(***************************************************************************)
InScoreRange(x) == x.kind = "num" /\ 0 <= x.v /\ x.v <= 100 * 100

C2_ScoreBounds ==
  /\ response.op = "getDetailedSummary" =>
       InScoreRange(response.body.overview.dataQualityScore)
  /\ response.op = "getDetailedDuplicateSummary" =>
       InScoreRange(response.body.overview.dataIntegrityScore)

(***************************************************************************)
(* C3  Degenerate cases: with totalDiscrepancies = 0 the three per-kind    *)
(* percentages of getDetailedSummary are 0 and dataQualityScore is 100;    *)
(* with an empty relation every one of them is still a number.             *)
(***************************************************************************)
C3_DegenerateCase ==
  response.op = "getDetailedSummary" =>
    LET o == response.body.overview
        b == response.body.discrepancyBreakdown
    IN  /\ o.totalDiscrepancies = 0 =>
             /\ b.typeMismatchPercentage = Num(0)
             /\ b.missingInPrsPercentage = Num(0)
             /\ b.missingInMdmsPercentage = Num(0)
             /\ o.dataQualityScore = Num(100 * 100)
        /\ (Len(prs) = 0 \/ Len(mdms) = 0) =>
             /\ b.typeMismatchPercentage.kind = "num"
             /\ b.missingInPrsPercentage.kind = "num"
             /\ b.missingInMdmsPercentage.kind = "num"
             /\ o.dataQualityScore.kind = "num"

(***************************************************************************)
(* C4  Type-mismatch classification: for every PRS row p and MDMS row m    *)
(* with equal JoinKeys there is a TYPE_MISMATCH discrepancy carrying       *)
(* p.berth_type and m.berth_qualifier exactly when the two values differ   *)
(* (one discrepancy per such pair), and none when they are equal.          *)
(***************************************************************************)
C4_TypeMismatchClassification ==
  IsDiscrepancyResponse =>
    /\ \A i \in 1..Len(prs), j \in 1..Len(mdms) :
         LET p == prs[i]
             m == mdms[j]
             pairs == {ij \in (1..Len(prs)) \X (1..Len(mdms)) :
                         prs[ij[1]] = p /\ mdms[ij[2]] = m}
             emitted == {k \in OfType("TYPE_MISMATCH") :
                           /\ FromPrsRow(Discrepancies[k], p)
                           /\ Discrepancies[k].berthQualifier = m.berth_qualifier
                           /\ Discrepancies[k].mdmsClass = m.coach_class}
         IN  KeyEqual(p, m) =>
               Cardinality(emitted) =
                 IF p.berth_type # m.berth_qualifier THEN Cardinality(pairs) ELSE 0
    /\ \A k \in OfType("TYPE_MISMATCH") :
         \E i \in 1..Len(prs), j \in 1..Len(mdms) :
           /\ KeyEqual(prs[i], mdms[j])
           /\ FromPrsRow(Discrepancies[k], prs[i])
           /\ Discrepancies[k].berthQualifier = mdms[j].berth_qualifier

(***************************************************************************)
(* C5  Normalization insensitivity: two PRS rows that differ only by       *)
(* leading/trailing blanks or letter case in coach_code or class join      *)
(* against the same MDMS rows and so receive the same classification       *)
(* (matched, TYPE_MISMATCH with the same qualifiers, or MISSING_IN_MDMS).  *)
(***************************************************************************)
SameTextUpToPaddingAndCase(a, b) ==
  \/ IsNull(a) /\ IsNull(b)
  \/ ~IsNull(a) /\ ~IsNull(b) /\ SameUpToPaddingAndCase(Val(a), Val(b))

DifferOnlyByPaddingOrCase(p, q) ==
  /\ SameTextUpToPaddingAndCase(p.coach_code, q.coach_code)
  /\ SameTextUpToPaddingAndCase(p.class, q.class)
  /\ p.berth_number = q.berth_number
  /\ p.berth_type = q.berth_type

\* What findDiscrepancies reported about the PRS row p.
Classification(p) ==
  {<<Discrepancies[k].discrepancyType, Discrepancies[k].berthQualifier,
     Discrepancies[k].mdmsClass>> :
     k \in {n \in 1..Len(Discrepancies) : FromPrsRow(Discrepancies[n], p)}}

C6_MissingInMdmsExact ==
  IsDiscrepancyResponse =>
    /\ \A i \in 1..Len(prs) :
         LET p == prs[i]
             emitted == {k \in OfType("MISSING_IN_MDMS") : FromPrsRow(Discrepancies[k], p)}
         IN  Cardinality(emitted) =
               IF \E j \in 1..Len(mdms) : KeyEqual(p, mdms[j]) THEN 0 ELSE Copies(prs, p)
    /\ \A k \in OfType("MISSING_IN_MDMS") :
         \E i \in 1..Len(prs) : FromPrsRow(Discrepancies[k], prs[i])

\* One PRS row is reported missing while another one has its MDMS row.
C6_Witness ==
  /\ IsDiscrepancyResponse
  /\ \E i, i2 \in 1..Len(prs) :
       /\ \E j \in 1..Len(mdms) : KeyEqual(prs[i], mdms[j])
       /\ \A j \in 1..Len(mdms) : ~KeyEqual(prs[i2], mdms[j])
       /\ \E k \in OfType("MISSING_IN_MDMS") : FromPrsRow(Discrepancies[k], prs[i2])

(***************************************************************************)
(* C7  Missing-in-source exactness: there is exactly one MISSING_IN_PRS    *)
(* discrepancy for each MDMS row that no PRS row equals in JoinKey, none   *)
(* for an MDMS row with a key-equal PRS row; the partition uses the join   *)
(* predicate of the PRS side: when a PRS row is matched (not reported      *)
(* MISSING_IN_MDMS), no MDMS row key-equal to it is reported MISSING_IN_PRS.*)
(***************************************************************************)
C7_MissingInPrsExact ==
  IsDiscrepancyResponse =>
    /\ \A j \in 1..Len(mdms) :
         LET m == mdms[j]
             emitted == {k \in OfType("MISSING_IN_PRS") : FromMdmsRow(Discrepancies[k], m)}
         IN  Cardinality(emitted) =
               IF \E i \in 1..Len(prs) : KeyEqual(prs[i], m) THEN 0 ELSE Copies(mdms, m)
    /\ \A k \in OfType("MISSING_IN_PRS") :
         \E j \in 1..Len(mdms) : FromMdmsRow(Discrepancies[k], mdms[j])
    /\ \A i \in 1..Len(prs), j \in 1..Len(mdms) :
         /\ KeyEqual(prs[i], mdms[j])
         /\ ~\E k \in OfType("MISSING_IN_MDMS") : FromPrsRow(Discrepancies[k], prs[i])
         => ~\E k \in OfType("MISSING_IN_PRS") : FromMdmsRow(Discrepancies[k], mdms[j])

\* One MDMS row is reported missing while another one, written with other
\* case and padding than its PRS row, is matched.
C7_Witness ==
  /\ IsDiscrepancyResponse
  /\ \E j, j2 \in 1..Len(mdms) :
       /\ \E i \in 1..Len(prs) :
            KeyEqual(prs[i], mdms[j]) /\ prs[i].coach_code # mdms[j].prs_coach_code
       /\ \A i \in 1..Len(prs) : ~KeyEqual(prs[i], mdms[j2])
       /\ \E k \in OfType("MISSING_IN_PRS") : FromMdmsRow(Discrepancies[k], mdms[j2])

(***************************************************************************)
(* C8  InputShapeError policy: a PRS or MDMS row whose berth number, coach *)
(* code or class is NULL matches no row of the other relation and is       *)
(* reported in its missing-in-X partition; findDiscrepancies still returns *)
(* and classifies the remaining rows as it would without the NULL rows.    *)
(***************************************************************************)
NullKeyPrs(p) == IsNull(p.coach_code) \/ IsNull(p.class) \/ IsNull(p.berth_number)

NullKeyMdms(m) == IsNull(m.prs_coach_code) \/ IsNull(m.coach_class) \/ IsNull(m.berth_no)

\* The discrepancy e was derived from a row with a NULL key component.
FromNullKeyRow(e) ==
  IF e.discrepancyType = "MISSING_IN_PRS"
  THEN \E j \in 1..Len(mdms) : NullKeyMdms(mdms[j]) /\ FromMdmsRow(e, mdms[j])
  ELSE \E i \in 1..Len(prs) : NullKeyPrs(prs[i]) /\ FromPrsRow(e, prs[i])

C8_NullKeyRowsAreMissing ==
  IsDiscrepancyResponse =>
    /\ \A i \in 1..Len(prs) :
         NullKeyPrs(prs[i]) =>
           /\ Cardinality({k \in OfType("MISSING_IN_MDMS") :
                             FromPrsRow(Discrepancies[k], prs[i])}) = Copies(prs, prs[i])
           /\ ~\E k \in OfType("TYPE_MISMATCH") : FromPrsRow(Discrepancies[k], prs[i])
    /\ \A j \in 1..Len(mdms) :
         NullKeyMdms(mdms[j]) =>
           Cardinality({k \in OfType("MISSING_IN_PRS") :
                          FromMdmsRow(Discrepancies[k], mdms[j])}) = Copies(mdms, mdms[j])
    /\ LET PrsOk(p) == ~NullKeyPrs(p)
           MdmsOk(m) == ~NullKeyMdms(m)
           Rest(e) == ~FromNullKeyRow(e)
       IN  SelectSeq(Discrepancies, Rest)
             = findDiscrepancies(SelectSeq(prs, PrsOk), SelectSeq(mdms, MdmsOk)).discrepancies

\* Both relations hold a row without berth number for the same coach and
\* class, next to a PRS row that is reported as TYPE_MISMATCH.
C8_Witness ==
  /\ IsDiscrepancyResponse
  /\ \E i \in 1..Len(prs), j \in 1..Len(mdms) :
       /\ IsNull(prs[i].berth_number) /\ IsNull(mdms[j].berth_no)
       /\ prs[i].coach_code = mdms[j].prs_coach_code
       /\ prs[i].class = mdms[j].coach_class
       /\ \E k \in OfType("MISSING_IN_MDMS") : FromPrsRow(Discrepancies[k], prs[i])
       /\ \E k \in OfType("MISSING_IN_PRS") : FromMdmsRow(Discrepancies[k], mdms[j])
  /\ OfType("TYPE_MISMATCH") # {}

(***************************************************************************)
(* C9  Duplicate detection completeness: for each origin (WITHIN_PRS,      *)
(* WITHIN_MDMS, CROSS_TABLE) every row of a flagged group has its serial   *)
(* number listed in that group and in no other group of the same origin.   *)
(***************************************************************************)
IsDuplicateResponse == response.op = "findDuplicates"

Range(s) == {s[i] : i \in 1..Len(s)}

\* No serial number is listed by two groups of the list.
ListedOnce(groups, Serials(_)) ==
  \A g, h \in 1..Len(groups) :
    g # h => Range(Serials(groups[g])) \cap Range(Serials(groups[h])) = {}

C9_DuplicateCompleteness ==
  IsDuplicateResponse =>
    LET d == response.body.duplicates
        Serials(g) == g.serialNumbers
        PrsSerials(g) == g.prsSerialNumbers
        MdmsSerials(g) == g.mdmsSerialNumbers
    IN  /\ ListedOnce(d.prs, Serials)
        /\ ListedOnce(d.mdms, Serials)
        /\ ListedOnce(d.crossTable, PrsSerials)
        /\ ListedOnce(d.crossTable, MdmsSerials)
        /\ \A g \in 1..Len(d.prs), i \in 1..Len(prs) :
             /\ prs[i].coach_code = d.prs[g].coachCode
             /\ prs[i].class = d.prs[g].class
             /\ prs[i].berth_number = d.prs[g].berthNumber
             /\ prs[i].berth_type = d.prs[g].berthType
             => prs[i].serial_no \in Range(d.prs[g].serialNumbers)
        /\ \A g \in 1..Len(d.mdms), j \in 1..Len(mdms) :
             /\ mdms[j].prs_coach_code = d.mdms[g].coachCode
             /\ mdms[j].layout_variant_no = d.mdms[g].layoutVariantNo
             /\ mdms[j].berth_no = d.mdms[g].berthNumber
             /\ mdms[j].berth_qualifier = d.mdms[g].berthQualifier
             => mdms[j].serial_no \in Range(d.mdms[g].serialNumbers)
        /\ \A g \in 1..Len(d.crossTable), i \in 1..Len(prs), j \in 1..Len(mdms) :
             /\ KeyEqual(prs[i], mdms[j])
             /\ prs[i].coach_code = d.crossTable[g].coachCode
             /\ prs[i].class = d.crossTable[g].class
             /\ prs[i].berth_number = d.crossTable[g].berthNumber
             /\ prs[i].berth_type = d.crossTable[g].berthType
             /\ mdms[j].berth_qualifier = d.crossTable[g].berthQualifier
             => /\ prs[i].serial_no \in Range(d.crossTable[g].prsSerialNumbers)
                /\ mdms[j].serial_no \in Range(d.crossTable[g].mdmsSerialNumbers)

(***************************************************************************)
(* C10  Within-source grouping: findDuplicates partitions the PRS rows by  *)
(* equality of the stored (coach_code, class, berth_number, berth_type),   *)
(* reports exactly the groups with more than one row, each once, with      *)
(* duplicateCount the group size and serialNumbers the members' serial     *)
(* numbers in ascending order; rows that differ only by case or blanks in  *)
(* coach_code are not grouped together.                                    *)
(***************************************************************************)
RawKey(p) == <<p.coach_code, p.class, p.berth_number, p.berth_type>>

GroupKey(g) == <<g.coachCode, g.class, g.berthNumber, g.berthType>>

Members(k) == {i \in 1..Len(prs) : RawKey(prs[i]) = k}

C10_WithinSourceGrouping ==
  IsDuplicateResponse =>
    LET groups == response.body.duplicates.prs
    IN  /\ \A i \in 1..Len(prs) :
             Cardinality({g \in 1..Len(groups) : GroupKey(groups[g]) = RawKey(prs[i])})
               = IF Cardinality(Members(RawKey(prs[i]))) > 1 THEN 1 ELSE 0
        /\ \A g \in 1..Len(groups) :
             LET grp == groups[g]
                 members == Members(GroupKey(grp))
             IN  /\ grp.duplicateCount > 1
                 /\ grp.duplicateCount = Cardinality(members)
                 /\ Len(grp.serialNumbers) = grp.duplicateCount
                 /\ \A n \in 1..(Len(grp.serialNumbers) - 1) :
                      Val(grp.serialNumbers[n]) <= Val(grp.serialNumbers[n + 1])
                 /\ \A i \in 1..Len(prs) :
                      Cardinality({n \in 1..Len(grp.serialNumbers) :
                                     grp.serialNumbers[n] = prs[i].serial_no})
                        = Cardinality({i2 \in members : prs[i2].serial_no = prs[i].serial_no})
        /\ \A i, j \in 1..Len(prs) :
             prs[i].coach_code # prs[j].coach_code =>
               \A g \in 1..Len(groups) :
                 ~({prs[i].serial_no, prs[j].serial_no} \subseteq Range(groups[g].serialNumbers))

\* A group of two rows that are stored against their serial order.
C10_Witness ==
  /\ IsDuplicateResponse
  /\ Len(response.body.duplicates.prs) = 1
  /\ response.body.duplicates.prs[1].duplicateCount = 2
  /\ \E i, j \in 1..Len(prs) :
       /\ i < j
       /\ RawKey(prs[i]) = RawKey(prs[j])
       /\ Val(prs[i].serial_no) > Val(prs[j].serial_no)
       /\ response.body.duplicates.prs[1].serialNumbers = <<prs[j].serial_no, prs[i].serial_no>>

(***************************************************************************)
(* C11  Cross-source flagging: for every JoinKey shared by a PRS row and   *)
(* an MDMS row, findDuplicates reports one CROSS_TABLE group exactly when  *)
(* more than one PRS row or more than one MDMS row has that key, and none  *)
(* when one row of each side has it; the prsCount and mdmsCount of the     *)
(* group are the numbers of PRS rows and of MDMS rows with that key.       *)
(***************************************************************************)
\* The CROSS_TABLE group g is reported for the JoinKey of the MDMS row m.
GroupAtKeyOf(g, m) ==
  KeyEqual([coach_code |-> g.coachCode, class |-> g.class,
            berth_number |-> g.berthNumber], m)

C11_CrossSourceFlagging ==
  IsDuplicateResponse =>
    LET groups == response.body.duplicates.crossTable
    IN  \A i \in 1..Len(prs), j \in 1..Len(mdms) :
          KeyEqual(prs[i], mdms[j]) =>
            LET prsAtKey == Cardinality({i2 \in 1..Len(prs) : KeyEqual(prs[i2], mdms[j])})
                mdmsAtKey == Cardinality({j2 \in 1..Len(mdms) : KeyEqual(prs[i], mdms[j2])})
                atKey == {g \in 1..Len(groups) : GroupAtKeyOf(groups[g], mdms[j])}
            IN  /\ Cardinality(atKey) = IF prsAtKey > 1 \/ mdmsAtKey > 1 THEN 1 ELSE 0
                /\ \A g \in atKey : /\ groups[g].prsCount = prsAtKey
                                     /\ groups[g].mdmsCount = mdmsAtKey

(***************************************************************************)
(* C12  Idempotence: a call of findDiscrepancies, or of the summary        *)
(* derived from it, on relations holding the same rows as at an earlier    *)
(* call returns the body the earlier call returned, the order of the       *)
(* discrepancies list included.                                            *)
(***************************************************************************)
\* The relations S and T hold the same rows, each as many times.
SameRows(S, T) == \A r \in Range(S) \cup Range(T) : Copies(S, r) = Copies(T, r)

C12_Idempotence ==
  /\ previous # NoResponse
  /\ response.op = previous.op
  /\ SameRows(previous.prs, prs)
  /\ SameRows(previous.mdms, mdms)
  => response.body = previous.body

(***************************************************************************)
(* C13  InvalidFilterError: a request to filter the discrepancies by a     *)
(* kind, or the duplicates by an origin, that is not recognized is         *)
(* rejected and no query has been sent to the database for it, at the      *)
(* controller and at the service entry points alike.                       *)
(***************************************************************************)
IsTypeFilterResponse ==
  response.op \in {"getDiscrepanciesByType", "getDuplicatesByType",
                   "DiscrepancyService.getDiscrepanciesByType",
                   "DuplicateService.getDuplicatesByType"}

Recognized(op, type) ==
  IF op \in {"getDiscrepanciesByType", "DiscrepancyService.getDiscrepanciesByType"}
  THEN type \in DiscrepancyTypes
  ELSE type \in DuplicateTypes

Rejected(r) ==
  IF r.op \in {"getDiscrepanciesByType", "getDuplicatesByType"}
  THEN r.status = 400
  ELSE r.outcome = "thrown"

C13_InvalidFilterFailFast ==
  IsTypeFilterResponse /\ ~Recognized(response.op, response.type)
    => Rejected(response) /\ response.queries = <<>>

(***************************************************************************)
(* C14  Coach filter: getDiscrepanciesForCoachCode and                     *)
(* getDuplicatesForCoachCode return exactly the computed results whose     *)
(* coach code is the requested one up to letter case, in their order.      *)
(***************************************************************************)
EqualIgnoringCase(a, b) ==
  /\ Len(a) = Len(b)
  /\ \A i \in 1..Len(a) : SameLetter(a[i], b[i])

\* The result d is recorded under the requested coach code.
UnderRequestedCoach(d) ==
  /\ ~IsNull(d.coachCode)
  /\ EqualIgnoringCase(Val(d.coachCode), response.coachCode)

C14_CoachFilter ==
  /\ response.op = "getDiscrepanciesForCoachCode" =>
       response.body
         = SelectSeq(findDiscrepancies(prs, mdms).discrepancies, UnderRequestedCoach)
  /\ response.op = "getDuplicatesForCoachCode" =>
       LET all == findDuplicates(prs, mdms).duplicates
       IN  /\ response.body.prs = SelectSeq(all.prs, UnderRequestedCoach)
           /\ response.body.mdms = SelectSeq(all.mdms, UnderRequestedCoach)
           /\ response.body.crossTable = SelectSeq(all.crossTable, UnderRequestedCoach)

(***************************************************************************)
(* C15  Partition ordering: within each of the three partitions of the     *)
(* discrepancies list (type mismatch, missing in MDMS, missing in PRS)     *)
(* the entries are in ascending order of (coach code, berth number).       *)
(***************************************************************************)
\* The entry x sorts strictly before the entry y.
EntryBefore(x, y) ==
  \/ TextLess(x.coachCode, y.coachCode)
  \/ /\ x.coachCode = y.coachCode
     /\ IntLess(x.berthNumber, y.berthNumber)

C15_PartitionOrdering ==
  IsDiscrepancyResponse =>
    \A t \in DiscrepancyTypes :
      \A a, b \in OfType(t) :
        a < b => ~EntryBefore(Discrepancies[b], Discrepancies[a])

(***************************************************************************)
(* C16  Group ordering: each list of duplicate groups returned by          *)
(* findDuplicates (prs, mdms, crossTable) is ordered by descending total   *)
(* member count, with ties broken by group key ascending.                  *)
(***************************************************************************)
\* The total member count of a group.
TotalMembers(g) ==
  IF g.duplicateType = "CROSS_TABLE" THEN g.prsCount + g.mdmsCount
  ELSE g.duplicateCount

\* The key of a group, and the kind of each of its columns.
OrderingKey(g) ==
  CASE g.duplicateType = "WITHIN_PRS" ->
         <<g.coachCode, g.class, g.berthNumber, g.berthType>>
    [] g.duplicateType = "WITHIN_MDMS" ->
         <<g.coachCode, g.layoutVariantNo, g.berthNumber, g.berthQualifier>>
    [] g.duplicateType = "CROSS_TABLE" ->
         <<g.coachCode, g.class, g.berthNumber, g.berthType, g.berthQualifier>>

OrderingKinds(g) ==
  IF g.duplicateType = "CROSS_TABLE"
  THEN <<"text", "text", "int", "text", "text">>
  ELSE <<"text", "text", "int", "text">>

\* Lexicographic order of two keys of the same shape.
RECURSIVE KeyLess(_, _, _)
KeyLess(a, b, kinds) ==
  IF a = <<>> THEN FALSE
  ELSE \/ IF Head(kinds) = "int" THEN IntLess(Head(a), Head(b))
          ELSE TextLess(Head(a), Head(b))
       \/ /\ Head(a) = Head(b)
          /\ KeyLess(Tail(a), Tail(b), Tail(kinds))

\* The group x belongs strictly before the group y.
GroupBefore(x, y) ==
  \/ TotalMembers(x) > TotalMembers(y)
  \/ /\ TotalMembers(x) = TotalMembers(y)
     /\ KeyLess(OrderingKey(x), OrderingKey(y), OrderingKinds(x))

GroupsInOrder(list) ==
  \A a, b \in 1..Len(list) : a < b => ~GroupBefore(list[b], list[a])

C16_GroupOrdering ==
  IsDuplicateResponse =>
    /\ GroupsInOrder(response.body.duplicates.prs)
    /\ GroupsInOrder(response.body.duplicates.mdms)
    /\ GroupsInOrder(response.body.duplicates.crossTable)

(***************************************************************************)
(* C17  Score formula: for non-empty relations getDetailedSummary returns  *)
(* dataQualityScore = (max(|PRS|,|MDMS|) - totalDiscrepancies) /           *)
(* max(|PRS|,|MDMS|) * 100 rounded to two decimals, and each per-kind      *)
(* percentage = round(kindCount / totalDiscrepancies * 10000) / 100, so    *)
(* that with totalDiscrepancies > 0 the three per-kind percentages are     *)
(* each in [0, 100].                                                       *)
(***************************************************************************)
\* x, a number in hundredths, is 100 * num / den rounded to two decimals,
\* halves upward: 100 * num / den - 1/200 <= x / 100 < 100 * num / den + 1/200
\* with the upper end taken and the lower not.
IsPercentRounded(x, num, den) ==
  /\ x.kind = "num"
  /\ 2 * 10000 * num - den < 2 * x.v * den
  /\ 2 * x.v * den <= 2 * 10000 * num + den

NonEmptyRelations == Len(prs) > 0 /\ Len(mdms) > 0

C17_ScoreFormula ==
  (response.op = "getDetailedSummary" /\ NonEmptyRelations) =>
    LET overview == response.body.overview
        breakdown == response.body.discrepancyBreakdown
        total == overview.totalDiscrepancies
        possible == Max(Len(prs), Len(mdms))
    IN  /\ total = findDiscrepancies(prs, mdms).totalDiscrepancies
        /\ IsPercentRounded(overview.dataQualityScore, possible - total, possible)
        /\ total > 0 =>
             /\ IsPercentRounded(breakdown.typeMismatchPercentage,
                                 breakdown.typeMismatchCount, total)
             /\ IsPercentRounded(breakdown.missingInPrsPercentage,
                                 breakdown.missingInPrsCount, total)
             /\ IsPercentRounded(breakdown.missingInMdmsPercentage,
                                 breakdown.missingInMdmsCount, total)
             /\ InScoreRange(breakdown.typeMismatchPercentage)
             /\ InScoreRange(breakdown.missingInPrsPercentage)
             /\ InScoreRange(breakdown.missingInMdmsPercentage)

\* A summary over non-empty relations where the rounding acts: two of three
\* discrepancies are of one kind, 66.666... percent reported as 66.67.
C17_Witness ==
  /\ response.op = "getDetailedSummary"
  /\ NonEmptyRelations
  /\ response.body.overview.totalDiscrepancies = 3
  /\ response.body.discrepancyBreakdown.missingInMdmsCount = 2
  /\ response.body.discrepancyBreakdown.missingInMdmsPercentage = Num(6667)
  /\ response.body.overview.dataQualityScore = Num(-5000)

(***************************************************************************)
(* C18  Missing-side sentinel: every MISSING_IN_MDMS discrepancy has       *)
(* berthQualifier = 'N/A' and keeps the PRS row's coach code, berth number *)
(* and berth type; every MISSING_IN_PRS discrepancy has berthType = 'N/A'  *)
(* and keeps the MDMS row's coach code, berth number and berth qualifier   *)
(* (the identifying coach code is never null for a row whose stored coach  *)
(* code is non-null).                                                      *)
(***************************************************************************)
IsSentinel(x) == x = <<<<"N", "/", "A">>>>

KeepsPrsRow(e) ==
  \E i \in 1..Len(prs) :
    /\ e.serialNo = prs[i].serial_no
    /\ e.coachCode = prs[i].coach_code
    /\ e.berthNumber = prs[i].berth_number
    /\ e.berthType = prs[i].berth_type
    /\ ~IsNull(prs[i].coach_code) => ~IsNull(e.coachCode)

KeepsMdmsRow(e) ==
  \E i \in 1..Len(mdms) :
    /\ e.serialNo = mdms[i].serial_no
    /\ e.coachCode = mdms[i].prs_coach_code
    /\ e.berthNumber = mdms[i].berth_no
    /\ e.berthQualifier = mdms[i].berth_qualifier
    /\ ~IsNull(mdms[i].prs_coach_code) => ~IsNull(e.coachCode)

C18_MissingSideSentinel ==
  IsDiscrepancyResponse =>
    /\ \A k \in OfType("MISSING_IN_MDMS") :
         /\ IsSentinel(Discrepancies[k].berthQualifier)
         /\ KeepsPrsRow(Discrepancies[k])
    /\ \A k \in OfType("MISSING_IN_PRS") :
         /\ IsSentinel(Discrepancies[k].berthType)
         /\ KeepsMdmsRow(Discrepancies[k])

\* A result with a discrepancy of each missing kind, both under a stored
\* coach code, and the MDMS one of a row whose qualifier is stored.
C18_Witness ==
  /\ IsDiscrepancyResponse
  /\ \E k \in OfType("MISSING_IN_MDMS") :
       /\ ~IsNull(Discrepancies[k].coachCode)
       /\ ~IsNull(Discrepancies[k].berthType)
  /\ \E k \in OfType("MISSING_IN_PRS") :
       /\ ~IsNull(Discrepancies[k].coachCode)
       /\ ~IsNull(Discrepancies[k].berthQualifier)

NewContents == [prs |-> PRS, mdms |-> MDMS]

C20_AtomicReplaceAll ==
  ingestion.sent > 0 =>
    \A k \in 1..Len(reader.seen) :
      reader.seen[k] \in {ingestion.old, NewContents}

(***************************************************************************)
(* C21  One classification per source row: for every PRS row,              *)
(* findDiscrepancies emits at most one discrepancy derived from that row   *)
(* (either one TYPE_MISMATCH or one MISSING_IN_MDMS, never both and never  *)
(* several TYPE_MISMATCH entries), even when several MDMS rows share the   *)
(* row's JoinKey.                                                          *)
(***************************************************************************)
\* The entries of the list derived from the PRS row p.
DerivedFromPrsRow(p) ==
  {k \in OfType("TYPE_MISMATCH") \cup OfType("MISSING_IN_MDMS") :
     FromPrsRow(Discrepancies[k], p)}

C21_OneClassificationPerSourceRow ==
  IsDiscrepancyResponse =>
    \A i \in 1..Len(prs) :
      Cardinality(DerivedFromPrsRow(prs[i])) <= Copies(prs, prs[i])

(***************************************************************************)
(* C22  Within-target grouping key: findDuplicates groups MDMS rows by raw *)
(* equality of (prs_coach_code, layout_variant_no, berth_no,               *)
(* berth_qualifier) only, so two MDMS rows equal on those four fields form *)
(* a WITHIN_MDMS group of count 2 even if their coach_class values differ, *)
(* while two rows that differ in layout_variant_no are never grouped.      *)
(***************************************************************************)
MdmsRawKey(m) == <<m.prs_coach_code, m.layout_variant_no, m.berth_no, m.berth_qualifier>>

MdmsGroupKey(g) == <<g.coachCode, g.layoutVariantNo, g.berthNumber, g.berthQualifier>>

MdmsMembers(k) == {i \in 1..Len(mdms) : MdmsRawKey(mdms[i]) = k}

C22_WithinTargetGroupingKey ==
  IsDuplicateResponse =>
    LET groups == response.body.duplicates.mdms
    IN  /\ \A i \in 1..Len(mdms) :
             Cardinality({g \in 1..Len(groups) :
                            MdmsGroupKey(groups[g]) = MdmsRawKey(mdms[i])})
               = IF Cardinality(MdmsMembers(MdmsRawKey(mdms[i]))) > 1 THEN 1 ELSE 0
        /\ \A g \in 1..Len(groups) :
             /\ groups[g].duplicateType = "WITHIN_MDMS"
             /\ groups[g].duplicateCount > 1
             /\ groups[g].duplicateCount
                  = Cardinality(MdmsMembers(MdmsGroupKey(groups[g])))
             /\ Range(groups[g].serialNumbers)
                  = {mdms[i].serial_no : i \in MdmsMembers(MdmsGroupKey(groups[g]))}
        /\ \A i, j \in 1..Len(mdms) :
             mdms[i].layout_variant_no # mdms[j].layout_variant_no =>
               \A g \in 1..Len(groups) :
                 ~({mdms[i].serial_no, mdms[j].serial_no}
                     \subseteq Range(groups[g].serialNumbers))

\* Two MDMS rows of different class reported as one group of two.
C22_Witness ==
  /\ IsDuplicateResponse
  /\ Len(mdms) = 2
  /\ mdms[1].coach_class # mdms[2].coach_class
  /\ Len(response.body.duplicates.mdms) = 1
  /\ response.body.duplicates.mdms[1].duplicateCount = 2

\* Two MDMS rows that differ in the layout variant alone, and no group.
C22_WitnessLayout ==
  /\ IsDuplicateResponse
  /\ Len(mdms) = 2
  /\ mdms[1].layout_variant_no # mdms[2].layout_variant_no
  /\ [mdms[1] EXCEPT !.layout_variant_no = Some(V1), !.serial_no = Some(1)]
       = [mdms[2] EXCEPT !.layout_variant_no = Some(V1), !.serial_no = Some(1)]
  /\ response.body.duplicates.mdms = <<>>

(***************************************************************************)
(* C23  Ingestion failure leaves the store unchanged: if                   *)
(* parseAndInsertExcel fails after it has started clearing or loading rows *)
(* (for example the MDMS sheet is missing or an INSERT fails), the         *)
(* contents of prs and mdms after the call equal their contents before the *)
(* call.                                                                   *)
(***************************************************************************)
C23_FailureLeavesStoreUnchanged ==
  ingestion.failed => [prs |-> prs, mdms |-> mdms] = ingestion.old

(***************************************************************************)
(* C24  Count consistency: in every result of findDiscrepancies,           *)
(* totalDiscrepancies equals the length of the discrepancies list and      *)
(* equals typeMismatchCount + missingInMdmsCount + missingInPrsCount, and  *)
(* each per-kind count equals the number of list entries with that         *)
(* discrepancyType.                                                        *)
(***************************************************************************)
C24_CountConsistency ==
  IsDiscrepancyResponse =>
    /\ response.body.totalDiscrepancies = Len(Discrepancies)
    /\ response.body.totalDiscrepancies
         = response.body.typeMismatchCount + response.body.missingInMdmsCount
           + response.body.missingInPrsCount
    /\ response.body.typeMismatchCount = Cardinality(OfType("TYPE_MISMATCH"))
    /\ response.body.missingInMdmsCount = Cardinality(OfType("MISSING_IN_MDMS"))
    /\ response.body.missingInPrsCount = Cardinality(OfType("MISSING_IN_PRS"))

\* A result that holds discrepancies of all three kinds.
C24_Witness ==
  /\ IsDiscrepancyResponse
  /\ OfType("TYPE_MISMATCH") # {}
  /\ OfType("MISSING_IN_MDMS") # {}
  /\ OfType("MISSING_IN_PRS") # {}

(***************************************************************************)
(* C25  Seeder mutual exclusion: at any time at most one seeding run       *)
(* (seeder child process plus whitespace cleanup) is in progress for a     *)
(* SmartSeeder instance, whatever the interleaving of startup initialize,  *)
(* debounced file-watcher callbacks, POST /force and POST /check; a call   *)
(* to seedWithWhitespaceCleanup made while isSeeding is true returns       *)
(* without starting a second run.                                          *)
(***************************************************************************)
\* The callers whose seeding run is in progress.
Running == {c \in Callers : seeder.pc[c] \in {"seeding", "cleaning"}}

C25_SeederMutualExclusion ==
  seeder.instance =>
    /\ Cardinality(Running) <= 1
    /\ seeder.isSeeding <=> Running # {}

\* POST /check has called seedWithWhitespaceCleanup during the run of another
\* caller and is back, while that run is still in progress.
C25_Witness ==
  /\ seeder.instance
  /\ seeder.isSeeding
  /\ seeder.message = "Changes detected and seeding completed"
  /\ seeder.pc["check"] = "idle"
  /\ Running # {}

(***************************************************************************)
(* C26  Seeding lock is always released: every seeding run that starts     *)
(* eventually sets isSeeding back to false, both when the seeder command   *)
(* and cleanup succeed and when either of them fails, so a failed seed     *)
(* never blocks later seeding requests.                                    *)
(***************************************************************************)
C26_SeedingLockReleased ==
  (seeder.instance /\ seeder.isSeeding) ~> (seeder.instance /\ ~seeder.isSeeding)

\* The run started by initialize has failed and the lock is free.
C26_Witness ==
  /\ seeder.instance
  /\ seeder.pc["initialize"] = "failed"
  /\ ~seeder.isSeeding

(***************************************************************************)
(* C27  Seed only on change: a debounced file-watcher check or a manual    *)
(* POST /check starts a seeding run only when checkForChanges found a      *)
(* changed, new or deleted spreadsheet hash or an empty relation; when the *)
(* watched files are unchanged and both relations are non-empty, no        *)
(* seeding run is started and the manual check reports 'No changes         *)
(* detected'.                                                              *)
(***************************************************************************)
C27_SeedOnlyOnChange ==
  seeder.instance =>
    /\ seeder.lastStart.caller \in {"timer", "check"} =>
         \/ seeder.lastStart.result.fileChanged
         \/ seeder.lastStart.result.dbEmpty
    /\ seeder.message = "Changes detected and seeding completed" =>
         \/ seeder.lastStart.caller # "check"
         \/ seeder.lastStart.result.fileChanged
         \/ seeder.lastStart.result.dbEmpty

(***************************************************************************)
(* C28  No lost change: once a watched spreadsheet has changed, the change *)
(* keeps being reported by checkForChanges until a seeding run for it has  *)
(* completed successfully; in particular, if the seeding run that followed *)
(* the detection fails, or the debounced check fires while another seeding *)
(* is in progress, a later check still detects the change and reseeds.     *)
(***************************************************************************)
\* checkForChanges has returned to c and reports a change (a changed hash or
\* an empty relation).
Reports(c) ==
  /\ seeder.result[c].returned = "object"
  /\ seeder.result[c].fileChanged \/ seeder.result[c].dbEmpty

\* No seeding run is in progress and no caller other than c is inside a check
\* or a seeding call.
OnlyCaller(c) ==
  /\ ~seeder.isSeeding
  /\ \A d \in Callers \ {c} : seeder.pc[d] \in {"idle", "done", "failed"}

\* A check that is alone, and that found the spreadsheet with contents that
\* no successful seeding run has loaded, reports a change.
C28_NoLostChange ==
  seeder.instance =>
    \A c \in Callers :
      ( /\ seeder.pc[c] = "checked"
        /\ seeder.stale[c]
        /\ seeder.file # seeder.seeded
        /\ OnlyCaller(c) ) => Reports(c)

(***************************************************************************)
(* C29  Debounce: for any burst of file-system events on matching files in *)
(* which consecutive events are less than debounceTime apart, exactly one  *)
(* change check is run, debounceTime after the last event of the burst;    *)
(* each new event cancels the pending timer, and after stop() no pending   *)
(* check fires.  A burst ends when its timer fires: every expiry of the    *)
(* timer has run one checkForChanges, and a stopped seeder has no pending  *)
(* timer.                                                                  *)
(***************************************************************************)
C29_Debounce ==
  seeder.instance =>
    /\ seeder.checks = seeder.fired
    /\ ~seeder.watching => seeder.debounceTimer # "pending"

(***************************************************************************)
(* C30  Simulation round trip: for any initial contents of prs and mdms    *)
(* (with pre-existing serial numbers below 99000), running simulateChanges *)
(* followed by restoreOriginalData returns both relations to exactly their *)
(* initial contents, including the original berth_type of every row that   *)
(* was changed to 'SIMULATED_TYPE' and every row that was moved to the     *)
(* backup table.                                                           *)
(***************************************************************************)
C30_SimulationRoundTrip ==
  simulation.pc \in {"restored", "failed"} =>
    /\ SameRows(prs, simulation.original.prs)
    /\ SameRows(mdms, simulation.original.mdms)

====
